---- MODULE Spec2Model ----
(***************************************************************************)
(* A model of the ariana-money trading bot: the RiskManager (src/risk.py), *)
(* the strategies (src/strategies) and the cycle orchestrator (src/bot.py) *)
(* over the paper-trading exchange (src/exchange.py).                      *)
(*                                                                         *)
(* Numbers.  Python floats are modelled by integers: portfolio values,     *)
(* balances and notionals are whole dollars, percentages are whole         *)
(* percents and every comparison of a quotient is cross-multiplied, which  *)
(* is what the double arithmetic gives on these operands (a correctly      *)
(* rounded quotient of two integers equals the double of a decimal literal *)
(* exactly when the two rationals are equal).  The one place where the     *)
(* double arithmetic differs from the rationals on these operands is the   *)
(* product max_drawdown_pct * 0.8 of risk.py:197, see RecoveryProductUlps. *)
(*                                                                         *)
(* Time.  time.time() is the variable now, in ticks of 43200 seconds.      *)
(***************************************************************************)
EXTENDS Integers, Sequences, FiniteSets, TLC

VARIABLES
    now,        \* time.time(), in ticks of 43200 s
    risk,       \* RiskManager.state, a RiskState
    last,       \* the last call driven: its name, arguments, result and pre-state
    hist,       \* history of the values given to initialize / update_portfolio_value / record_buy
    pc,         \* where TradingBot.run stands
    market_price,   \* the venue's last price of the pair
    exchange,   \* ExchangeConnector: paper balances and paper orders
    dca,        \* DCAStrategy.state
    grid,       \* GridStrategy: initialized, base_price, order_amount, grid_levels
    db,         \* the database: orders, trades, last portfolio snapshot, saved state
    tr,         \* what the cycle in progress (or the last one) has done, in order
    idx,        \* the strategy the evaluation loop of the cycle is at
    shutdown_event, \* TradingBot._shutdown_event is set
    original,   \* the objects a state was saved from, before it was loaded again
    restarts,   \* how many times a saved state has been loaded
    config,     \* Config: what the TradingBot was constructed with
    failures    \* how many collaborator calls have raised so far

botvars == <<pc, market_price, exchange, dca, grid, db, tr, idx, shutdown_event,
            original, restarts, config, failures>>
vars == <<now, risk, last, hist, pc, market_price, exchange, dca, grid, db, tr, idx,
          shutdown_event, original, restarts, config, failures>>

----------------------------------------------------------------------------
(* Bounds of the model *)

MaxTime == 4            \* the clock stops advancing here
MaxRestarts == 1        \* a saved state is loaded again at most this many times
MaxRecordBuys == 4       \* record_buy is called at most this many times
MaxGridOrders == 10     \* the grid rotation is followed up to this many paper orders
MaxFaultCall == 4       \* the collaborator calls of a step that may raise: the first ones
MaxFailures == 1        \* collaborator calls raise at most this many times
MaxExecuteOrders == 2   \* _execute_signal is called up to this many paper orders
MaxDcaOrders == 4       \* the DCAStrategy is evaluated up to this many paper orders

(* Program constants *)

MaxRiskPerTradePct == 2     \* RiskConfig.max_risk_per_trade_pct = 0.02
MaxDrawdownPct == 10        \* RiskConfig.max_drawdown_pct = 0.10
DailyLossLimitPct == 5      \* RiskConfig.daily_loss_limit_pct = 0.05
SecondsPerDay == 86400      \* seconds_per_day
RecoveryPct == 80           \* the factor 0.8 of resume_trading

\* risk.py:197 evaluates max_drawdown_pct * 0.8 in doubles: 0.1 * 0.8 is
\* 0.08000000000000002, one unit in the last place ABOVE the double nearest 8/100
\* (which is what (peak - current) / peak yields when the quotient is exactly 8/100).
RecoveryProductUlps == 1

Seconds(ticks) == ticks * 43200

\* The portfolio values the environment produces (dollars).
Values == {0, 89, 90, 91, 92, 93, 94, 95, 100}

----------------------------------------------------------------------------
(* RiskState and RiskManager (src/risk.py) *)

DrawdownReason == "Max drawdown exceeded"
DailyLossReason == "Daily loss limit exceeded"

\* `"daily" in pause_reason.lower()` on the reasons the program writes
MentionsDaily(reason) == reason = DailyLossReason

RiskState ==
    [initial_portfolio_value |-> 0, peak_portfolio_value |-> 0,
     current_portfolio_value |-> 0, daily_starting_value |-> 0,
     daily_pnl |-> 0, day_start_timestamp |-> 0,
     is_paused |-> FALSE, pause_reason |-> ""]

initialize(s, portfolio_value, t) ==
    [s EXCEPT !.initial_portfolio_value = portfolio_value,
              !.peak_portfolio_value = portfolio_value,
              !.current_portfolio_value = portfolio_value,
              !.daily_starting_value = portfolio_value,
              !.day_start_timestamp = t]

DailyResetDueStrict(s, t) == Seconds(t - s.day_start_timestamp) > SecondsPerDay

\* current_time - self.state.day_start_timestamp >= seconds_per_day
DailyResetDue(s, t) == Seconds(t - s.day_start_timestamp) >= SecondsPerDay

check_daily_reset(s, t) ==
    IF DailyResetDue(s, t)
    THEN LET r == [s EXCEPT !.daily_starting_value = s.current_portfolio_value,
                            !.day_start_timestamp = t,
                            !.daily_pnl = 0]
         IN IF r.is_paused /\ MentionsDaily(r.pause_reason)
            THEN [r EXCEPT !.is_paused = FALSE, !.pause_reason = ""]
            ELSE r
    ELSE s

DrawdownBreachedStrict(s) ==
    (s.peak_portfolio_value - s.current_portfolio_value) * 100
        > MaxDrawdownPct * s.peak_portfolio_value

\* drawdown >= max_drawdown_pct, with drawdown = (peak - current) / peak
DrawdownBreached(s) ==
    (s.peak_portfolio_value - s.current_portfolio_value) * 100
        >= MaxDrawdownPct * s.peak_portfolio_value

\* the drawdown taken in percent against the limit taken as a fraction
check_drawdown_percent_units(s) ==
    IF s.peak_portfolio_value = 0 THEN s
    ELSE IF (s.peak_portfolio_value - s.current_portfolio_value) * 100 * 100
                >= MaxDrawdownPct * s.peak_portfolio_value
         THEN [s EXCEPT !.is_paused = TRUE, !.pause_reason = DrawdownReason]
         ELSE s

check_drawdown(s) ==
    IF s.peak_portfolio_value = 0 THEN s
    ELSE IF DrawdownBreached(s)
         THEN [s EXCEPT !.is_paused = TRUE, !.pause_reason = DrawdownReason]
         ELSE s

\* daily_loss_pct >= daily_loss_limit_pct, with daily_loss_pct = -daily_pnl / daily_starting
DailyLossBreached(s) ==
    (0 - s.daily_pnl) * 100 >= DailyLossLimitPct * s.daily_starting_value

check_daily_loss_limit_keeps_reason(s) ==
    IF s.daily_starting_value = 0 THEN s
    ELSE IF DailyLossBreached(s)
         THEN [s EXCEPT !.is_paused = TRUE,
                        !.pause_reason = IF s.is_paused THEN s.pause_reason
                                         ELSE DailyLossReason]
         ELSE s

check_daily_loss_limit(s) ==
    IF s.daily_starting_value = 0 THEN s
    ELSE IF DailyLossBreached(s)
         THEN [s EXCEPT !.is_paused = TRUE, !.pause_reason = DailyLossReason]
         ELSE s

update_peak_always(s, value) ==
    [s EXCEPT !.current_portfolio_value = value, !.peak_portfolio_value = value]

update_peak(s, value) ==
    LET c == [s EXCEPT !.current_portfolio_value = value]
    IN IF value > c.peak_portfolio_value
       THEN [c EXCEPT !.peak_portfolio_value = value]
       ELSE c

update_portfolio_value_unpausing(s, value, t) ==
    LET a == check_daily_reset(update_peak(s, value), t)
        b == [a EXCEPT !.daily_pnl = value - a.daily_starting_value]
        c == check_daily_loss_limit(check_drawdown(b))
    IN IF ~DrawdownBreached(b) /\ ~DailyLossBreached(b)
       THEN [c EXCEPT !.is_paused = FALSE, !.pause_reason = ""]
       ELSE c

update_portfolio_value(s, value, t) ==
    LET a == check_daily_reset(update_peak(s, value), t)
        b == [a EXCEPT !.daily_pnl = value - a.daily_starting_value]
    IN check_daily_loss_limit(check_drawdown(b))

\* current_drawdown < max_drawdown_pct * 0.8, as the doubles compare: where the two
\* rationals are equal the product's rounding (RecoveryProductUlps) decides.
BelowRecoveryThreshold(s) ==
    LET lhs == (s.peak_portfolio_value - s.current_portfolio_value) * 100 * 100
        rhs == MaxDrawdownPct * RecoveryPct * s.peak_portfolio_value
    IN lhs < rhs \/ (lhs = rhs /\ RecoveryProductUlps > 0)

\* resume_trading: <<new state, returned value>>.  The division by peak raises
\* ZeroDivisionError when peak is 0; no paused state with peak 0 is reachable here.
resume_trading(s) ==
    IF ~s.is_paused THEN <<s, TRUE>>
    ELSE IF BelowRecoveryThreshold(s)
         THEN <<[s EXCEPT !.is_paused = FALSE, !.pause_reason = ""], TRUE>>
         ELSE <<s, FALSE>>

force_resume(s) == [s EXCEPT !.is_paused = FALSE, !.pause_reason = ""]

----------------------------------------------------------------------------
(* Signals, balances and tickers (src/strategies/base.py, src/exchange.py) *)

\* symbol.split("/")
Base(symbol) == IF symbol = "BTC/USD" THEN "BTC" ELSE "ETH"
Quote(symbol) == "USD"

\* A StrategySignal.  price 0 stands for None: every use of signal.price in the
\* program tests its truthiness, under which None and 0.0 are the same.
Signal(type, symbol, price, amount, order_type, reason) ==
    [signal_type |-> type, symbol |-> symbol, price |-> price, amount |-> amount,
     order_type |-> order_type, reason |-> reason]

Balance(free) == [free |-> free, used |-> 0, total |-> free]

\* signal.price if signal.price else ticker.last
SignalPrice(signal, ticker) == IF signal.price # 0 THEN signal.price ELSE ticker.last

TradeValue(signal, ticker) == signal.amount * SignalPrice(signal, ticker)

ExceedsMaxTradeInclusive(s, trade_value) ==
    trade_value * 100 >= s.current_portfolio_value * MaxRiskPerTradePct

\* trade_value > current_portfolio_value * max_risk_per_trade_pct
ExceedsMaxTrade(s, trade_value) ==
    trade_value * 100 > s.current_portfolio_value * MaxRiskPerTradePct

\* balances.get(cur): the Balance, or None (not in the dictionary)
HasBalance(balances, cur) == cur \in DOMAIN balances
Available(balances, cur) == IF HasBalance(balances, cur) THEN balances[cur].free ELSE 0

validate_signal_balance_first(s, signal, balances, ticker) ==
    LET trade_value == TradeValue(signal, ticker)
        quote == Quote(signal.symbol)
        base == Base(signal.symbol)
    IN IF s.is_paused
       THEN <<FALSE, [kind |-> "Trading paused", why |-> s.pause_reason]>>
       ELSE IF signal.signal_type = "buy"
               /\ (~HasBalance(balances, quote) \/ balances[quote].free < trade_value)
       THEN <<FALSE, [kind |-> "Insufficient balance", currency |-> quote,
                      need |-> trade_value, have |-> Available(balances, quote)]>>
       ELSE IF signal.signal_type = "sell"
               /\ (~HasBalance(balances, base) \/ balances[base].free < signal.amount)
       THEN <<FALSE, [kind |-> "Insufficient balance", currency |-> base,
                      need |-> signal.amount, have |-> Available(balances, base)]>>
       ELSE IF ExceedsMaxTrade(s, trade_value)
       THEN <<FALSE, [kind |-> "Trade value exceeds max", value |-> trade_value]>>
       ELSE <<TRUE, [kind |-> "OK"]>>

\* validate_signal: <<is_valid, reason>>; it assigns nothing to the state
validate_signal(s, signal, balances, ticker) ==
    LET trade_value == TradeValue(signal, ticker)
        quote == Quote(signal.symbol)
        base == Base(signal.symbol)
    IN IF s.is_paused
       THEN <<FALSE, [kind |-> "Trading paused", why |-> s.pause_reason]>>
       ELSE IF ExceedsMaxTrade(s, trade_value)
       THEN <<FALSE, [kind |-> "Trade value exceeds max", value |-> trade_value]>>
       ELSE IF signal.signal_type = "buy"
               /\ (~HasBalance(balances, quote) \/ balances[quote].free < trade_value)
       THEN <<FALSE, [kind |-> "Insufficient balance", currency |-> quote,
                      need |-> trade_value, have |-> Available(balances, quote)]>>
       ELSE IF signal.signal_type = "sell"
               /\ (~HasBalance(balances, base) \/ balances[base].free < signal.amount)
       THEN <<FALSE, [kind |-> "Insufficient balance", currency |-> base,
                      need |-> signal.amount, have |-> Available(balances, base)]>>
       ELSE <<TRUE, [kind |-> "OK"]>>

----------------------------------------------------------------------------
(* The trading pair and the paper exchange (src/config.py, src/exchange.py)         *)
(*                                                                                  *)
(* Units of the orchestrated model: prices are whole dollars, amounts of the base   *)
(* currency are hundredths (the pair's amount precision is 2, its price precision   *)
(* 0, its minimum order size 0.01), money is cents, so that amount * price is cents.*)

\* One configured TradingPair
Pair == [symbol |-> "BTC/USD", base |-> "BTC", quote |-> "USD", min_order_size |-> 1]

\* round(num / den, precision) for num >= 0, den > 0, in units of the precision:
\* Python rounds a tie to the even neighbour
RoundHalfEven(num, den) ==
    LET q == num \div den
        r == num % den
    IN IF 2 * r < den THEN q
       ELSE IF 2 * r > den THEN q + 1
       ELSE IF q % 2 = 0 THEN q ELSE q + 1

\* ExchangeConnector.__init__ in paper mode: _paper_balances, _paper_orders
\* (the list of Order in creation order; the order "paper_<n>" is the n-th)
PaperExchange == [balances |-> [USD |-> 10000, BTC |-> 0], orders |-> <<>>]

\* get_ticker: the venue quotes bid = ask = last
Ticker(symbol, p) == [symbol |-> symbol, bid |-> p, ask |-> p, last |-> p]

\* get_all_balances in paper mode
get_all_balances(ex) == [c \in DOMAIN ex.balances |-> Balance(ex.balances[c])]

\* _paper_create_order: <<exchange, order>>
paper_create_order(ex, symbol, side, order_type, amount, p) ==
    LET id == Len(ex.orders) + 1
        base == Base(symbol)
        quote == Quote(symbol)
        cost == amount * p
        fills == IF side = "buy" THEN ex.balances[quote] >= cost
                 ELSE ex.balances[base] >= amount
        bal == IF order_type = "market" /\ fills
               THEN IF side = "buy"
                    THEN [ex.balances EXCEPT ![quote] = @ - cost, ![base] = @ + amount]
                    ELSE [ex.balances EXCEPT ![base] = @ - amount, ![quote] = @ + cost]
               ELSE ex.balances
        status == IF order_type = "market"
                  THEN IF fills THEN "closed" ELSE "canceled"
                  ELSE "open"
        order == [id |-> id, symbol |-> symbol, side |-> side, type |-> order_type,
                  price |-> p, amount |-> amount,
                  filled |-> IF status = "closed" THEN amount ELSE 0, status |-> status]
    IN <<[balances |-> bal, orders |-> Append(ex.orders, order)], order>>

create_market_order(ex, symbol, side, amount, ticker) ==
    paper_create_order(ex, symbol, side, "market", amount,
                       IF side = "buy" THEN ticker.ask ELSE ticker.bid)

create_limit_order(ex, symbol, side, amount, p) ==
    paper_create_order(ex, symbol, side, "limit", amount, p)

\* check_and_fill_paper_orders from the i-th order on: <<exchange, filled orders>>
RECURSIVE fill_paper_orders(_, _, _, _)
fill_paper_orders(ex, i, ticker, filled_orders) ==
    IF i > Len(ex.orders) THEN <<ex, filled_orders>>
    ELSE LET order == ex.orders[i]
             base == Base(order.symbol)
             quote == Quote(order.symbol)
             cost == order.amount * order.price
             should_fill ==
                 \/ order.side = "buy" /\ ticker.last <= order.price
                 \/ order.side = "sell" /\ ticker.last >= order.price
             funded == IF order.side = "buy" THEN ex.balances[quote] >= cost
                       ELSE ex.balances[base] >= order.amount
         IN IF order.status = "open" /\ order.type = "limit" /\ should_fill /\ funded
            THEN LET done == [order EXCEPT !.filled = order.amount, !.status = "closed"]
                     bal == IF order.side = "buy"
                            THEN [ex.balances EXCEPT ![quote] = @ - cost,
                                                     ![base] = @ + order.amount]
                            ELSE [ex.balances EXCEPT ![base] = @ - order.amount,
                                                     ![quote] = @ + cost]
                 IN fill_paper_orders([balances |-> bal,
                                       orders |-> [ex.orders EXCEPT ![i] = done]],
                                      i + 1, ticker, Append(filled_orders, done))
            ELSE fill_paper_orders(ex, i + 1, ticker, filled_orders)

check_and_fill_paper_orders(ex, ticker) == fill_paper_orders(ex, 1, ticker, <<>>)

----------------------------------------------------------------------------
(* DCAStrategy (src/strategies/dca.py) *)

BuyIntervalHours == 24      \* DCAConfig.buy_interval_hours
BuyAmountPct == 2           \* DCAConfig.buy_amount_pct = 0.02
PriceDropTriggerPct == 3    \* DCAConfig.price_drop_trigger_pct = 0.03
MaxBuysPerDay == 3          \* DCAConfig.max_buys_per_day

DCAState ==
    [last_buy_time |-> 0, last_buy_price |-> 0, buys_today |-> 0, day_start |-> 0,
     total_invested |-> 0, total_amount_bought |-> 0, average_price |-> 0]

reset_daily_counter(d, t) ==
    IF Seconds(t - d.day_start) >= SecondsPerDay
    THEN [d EXCEPT !.buys_today = 0, !.day_start = t]
    ELSE d

can_buy_inclusive(d) == d.buys_today <= MaxBuysPerDay

\* _can_buy, on the state _reset_daily_counter leaves
can_buy(d) == d.buys_today < MaxBuysPerDay

\* hours_since_last >= buy_interval_hours, hours_since_last = (now - last_buy_time) / 3600
time_for_scheduled_buy(d, t) ==
    \/ d.last_buy_time = 0
    \/ Seconds(t - d.last_buy_time) >= BuyIntervalHours * 3600

price_dropped_enough_strict(d, current_price) ==
    /\ d.last_buy_price # 0
    /\ (d.last_buy_price - current_price) * 100 > PriceDropTriggerPct * d.last_buy_price

price_dropped_enough(d, current_price) ==
    /\ d.last_buy_price # 0
    /\ (d.last_buy_price - current_price) * 100 >= PriceDropTriggerPct * d.last_buy_price

\* DCAStrategy.evaluate: <<state, signals>>.  A ticker.last of 0 divides by zero:
\* the model's prices are positive.
dca_evaluate(d, symbol, ticker, balances, t) ==
    IF symbol # Pair.symbol THEN <<d, <<>>>>
    ELSE IF ~HasBalance(balances, Pair.quote) \/ balances[Pair.quote].free <= 0
    THEN <<d, <<>>>>
    ELSE LET d1 == reset_daily_counter(d, t)
             scheduled == time_for_scheduled_buy(d1, t)
             should_buy == scheduled \/ price_dropped_enough(d1, ticker.last)
             \* buy_amount_usd / current_price, rounded to the amount precision
             amount == RoundHalfEven(balances[Pair.quote].free * BuyAmountPct,
                                     100 * ticker.last)
         IN IF can_buy(d1) /\ should_buy /\ amount >= Pair.min_order_size
            THEN <<d1, <<Signal("buy", symbol, 0, amount, "market",
                                IF scheduled THEN "Scheduled DCA buy"
                                ELSE "Price drop DCA buy")>>>>
            ELSE <<d1, <<>>>>

record_buy_price_as_average(d, p, amount, t) ==
    [d EXCEPT !.last_buy_time = t,
              !.last_buy_price = p,
              !.buys_today = @ + 1,
              !.total_invested = @ + p * amount,
              !.total_amount_bought = @ + amount,
              !.average_price = <<p, 1>>]

\* record_buy; average_price is kept as the pair <<invested, bought>> of the quotient
record_buy(d, p, amount, t) ==
    LET invested == d.total_invested + p * amount
        bought == d.total_amount_bought + amount
    IN [d EXCEPT !.last_buy_time = t,
                 !.last_buy_price = p,
                 !.buys_today = @ + 1,
                 !.total_invested = invested,
                 !.total_amount_bought = bought,
                 !.average_price = IF bought > 0 THEN <<invested, bought>> ELSE @]

----------------------------------------------------------------------------
(* GridStrategy (src/strategies/grid.py) *)

NumGrids == 10          \* GridConfig.num_grids
UpperPricePct == 5      \* GridConfig.upper_price_pct = 0.05
LowerPricePct == 5      \* GridConfig.lower_price_pct = 0.05
AllocationPct == 30     \* GridConfig.allocation_pct = 0.3

\* GridStrategy.__init__; order_id 0 is None; order_amount (amount_per_grid_usd) is
\* kept as the pair <<numerator, denominator>> of available_quote * allocation_pct /
\* num_buy_grids
GridState ==
    [initialized |-> FALSE, base_price |-> 0, order_amount |-> <<0, 1>>,
     grid_levels |-> <<>>]

GridLevel(p, side) == [price |-> p, side |-> side, order_id |-> 0, filled |-> FALSE]

LevelPriceFromSecond(current_price, i) ==
    RoundHalfEven(current_price * ((100 - LowerPricePct) * NumGrids
                                   + (i + 1) * (UpperPricePct + LowerPricePct)),
                  100 * NumGrids)

\* round(lower_price + i * grid_spacing, price_precision)
LevelPrice(current_price, i) ==
    RoundHalfEven(current_price * ((100 - LowerPricePct) * NumGrids
                                   + i * (UpperPricePct + LowerPricePct)),
                  100 * NumGrids)

\* round(amount_per_grid_usd / price, amount_precision)
GridAmount(order_amount, p) == RoundHalfEven(order_amount[1], order_amount[2] * p)

\* the loop of initialize_grid from level i on: <<levels, signals>>
RECURSIVE grid_levels_from(_, _, _, _, _)
grid_levels_from(i, current_price, order_amount, levels, signals) ==
    IF i >= NumGrids THEN <<levels, signals>>
    ELSE LET level_price == LevelPrice(current_price, i)
         IN IF level_price < current_price
            THEN LET amount == GridAmount(order_amount, level_price)
                 IN IF amount >= Pair.min_order_size
                    THEN grid_levels_from(i + 1, current_price, order_amount,
                             Append(levels, GridLevel(level_price, "buy")),
                             Append(signals, Signal("buy", Pair.symbol, level_price, amount,
                                                    "limit", "Grid buy level")))
                    ELSE grid_levels_from(i + 1, current_price, order_amount, levels, signals)
            ELSE grid_levels_from(i + 1, current_price, order_amount,
                     Append(levels, GridLevel(level_price, "sell")), signals)

\* initialize_grid: <<state, signals>>
initialize_grid(g, current_price, available_quote) ==
    LET order_amount == <<available_quote * AllocationPct, 100 * (NumGrids \div 2)>>
        built == grid_levels_from(0, current_price, order_amount, <<>>, <<>>)
    IN <<[initialized |-> TRUE, base_price |-> current_price,
          order_amount |-> order_amount, grid_levels |-> built[1]],
         built[2]>>

grid_evaluate_reinitializing(g, symbol, ticker, balances) ==
    LET moved == IF ticker.last >= g.base_price THEN ticker.last - g.base_price
                 ELSE g.base_price - ticker.last
    IN IF symbol # Pair.symbol THEN <<g, <<>>>>
       ELSE IF ~HasBalance(balances, Pair.quote) THEN <<g, <<>>>>
       ELSE IF ~g.initialized \/ moved * 100 > 15 * g.base_price
       THEN initialize_grid(g, ticker.last, balances[Pair.quote].free)
       ELSE <<g, <<>>>>

\* GridStrategy.evaluate: <<state, signals>>
grid_evaluate(g, symbol, ticker, balances) ==
    IF symbol # Pair.symbol THEN <<g, <<>>>>
    ELSE IF ~HasBalance(balances, Pair.quote) THEN <<g, <<>>>>
    ELSE IF ~g.initialized
    THEN initialize_grid(g, ticker.last, balances[Pair.quote].free)
    ELSE <<g, <<>>>>

\* the index of the first level that satisfies Test, 0 when there is none
FirstLevel(levels, Test(_)) ==
    LET hits == {i \in 1..Len(levels) : Test(levels[i])}
    IN IF hits = {} THEN 0 ELSE CHOOSE i \in hits : \A j \in hits : i <= j

grid_on_order_filled_every_owner(g, order_id, symbol) ==
    LET owners == {i \in 1..Len(g.grid_levels) : g.grid_levels[i].order_id = order_id}
    IN <<[g EXCEPT !.grid_levels =
                       [i \in 1..Len(@) |->
                           IF i \in owners THEN [@[i] EXCEPT !.filled = TRUE, !.order_id = 0]
                           ELSE @[i]]],
         <<>>>>

\* on_order_filled: <<state, signals>>
grid_on_order_filled(g, order_id, symbol) ==
    LET Owns(level) == level.order_id = order_id
        i == FirstLevel(g.grid_levels, Owns)
    IN IF i = 0 THEN <<g, <<>>>>
       ELSE LET level == g.grid_levels[i]
                g1 == [g EXCEPT !.grid_levels[i].filled = TRUE,
                                !.grid_levels[i].order_id = 0]
                \* level.price * (1 +/- pct / (num_grids / 2)), rounded to the price precision
                sell_price == RoundHalfEven(level.price * (100 * NumGrids + 2 * UpperPricePct),
                                            100 * NumGrids)
                buy_price == RoundHalfEven(level.price * (100 * NumGrids - 2 * LowerPricePct),
                                           100 * NumGrids)
                has_amount == g.order_amount[1] # 0
            IN IF level.side = "buy"
               THEN LET amount == IF has_amount THEN GridAmount(g.order_amount, level.price)
                                  ELSE 0
                    IN <<g1, IF amount >= Pair.min_order_size
                             THEN <<Signal("sell", symbol, sell_price, amount, "limit",
                                           "Grid sell after buy fill")>>
                             ELSE <<>>>>
               ELSE LET amount == IF has_amount THEN GridAmount(g.order_amount, buy_price)
                                  ELSE 0
                    IN <<g1, IF amount >= Pair.min_order_size
                             THEN <<Signal("buy", symbol, buy_price, amount, "limit",
                                           "Grid buy after sell fill")>>
                             ELSE <<>>>>

set_order_id_adding_level(g, p, order_id) ==
    LET Near(level) == level.price = p
        i == FirstLevel(g.grid_levels, Near)
    IN IF i = 0
       THEN [g EXCEPT !.grid_levels = Append(@, [GridLevel(p, "sell") EXCEPT
                                                     !.order_id = order_id])]
       ELSE [g EXCEPT !.grid_levels[i].order_id = order_id]

\* set_order_id: abs(level.price - price) < 0.01 is equality on whole-dollar prices
set_order_id(g, p, order_id) ==
    LET Near(level) == level.price = p
        i == FirstLevel(g.grid_levels, Near)
    IN IF i = 0 THEN g ELSE [g EXCEPT !.grid_levels[i].order_id = order_id]

----------------------------------------------------------------------------
(* The orchestrator (src/bot.py).  An operator takes and returns the bot's objects *)
(* as one record w = [risk, ex, dca, grid, db, tr, config, calls, faults, raised,   *)
(* exc].                                                                           *)

\* _setup_strategies for the one pair, in list order
Strategies == <<"Grid", "DCA">>

\* the prices the venue quotes
Prices == {10, 100}

Database == [orders |-> <<>>, trades |-> <<>>, snapshot |-> <<>>, state |-> <<>>]

\* RiskManager.get_status (the derived percentages and the config limits are left out)
risk_get_status(s) ==
    [is_paused |-> s.is_paused, pause_reason |-> s.pause_reason,
     current_portfolio_value |-> s.current_portfolio_value,
     peak_portfolio_value |-> s.peak_portfolio_value,
     initial_portfolio_value |-> s.initial_portfolio_value,
     daily_pnl |-> s.daily_pnl]

\* state_dict.get(key, default)
Get(state_dict, key, default) ==
    IF key \in DOMAIN state_dict THEN state_dict[key] ELSE default

\* RiskManager.load_state, on a fresh RiskManager
load_state(state_dict) ==
    [initial_portfolio_value |-> Get(state_dict, "initial_portfolio_value", 0),
     peak_portfolio_value |-> Get(state_dict, "peak_portfolio_value", 0),
     current_portfolio_value |-> Get(state_dict, "current_portfolio_value", 0),
     daily_starting_value |-> Get(state_dict, "daily_starting_value", 0),
     daily_pnl |-> Get(state_dict, "daily_pnl", 0),
     day_start_timestamp |-> Get(state_dict, "day_start_timestamp", 0),
     is_paused |-> Get(state_dict, "is_paused", FALSE),
     pause_reason |-> Get(state_dict, "pause_reason", "")]

\* DCAStrategy.get_status (the two config values are left out)
dca_get_status(d) ==
    [last_buy_time |-> d.last_buy_time, last_buy_price |-> d.last_buy_price,
     buys_today |-> d.buys_today, total_invested |-> d.total_invested,
     total_amount_bought |-> d.total_amount_bought, average_price |-> d.average_price]

\* DCAStrategy.load_state, on a fresh DCAStrategy
dca_load_state(state_dict) ==
    [last_buy_time |-> Get(state_dict, "last_buy_time", 0),
     last_buy_price |-> Get(state_dict, "last_buy_price", 0),
     buys_today |-> Get(state_dict, "buys_today", 0),
     day_start |-> Get(state_dict, "day_start", 0),
     total_invested |-> Get(state_dict, "total_invested", 0),
     total_amount_bought |-> Get(state_dict, "total_amount_bought", 0),
     average_price |-> Get(state_dict, "average_price", 0)]

\* GridStrategy.get_status
grid_get_status(g) ==
    [initialized |-> g.initialized, base_price |-> g.base_price,
     num_levels |-> Len(g.grid_levels),
     buy_levels |-> Cardinality({i \in 1..Len(g.grid_levels) : g.grid_levels[i].side = "buy"}),
     sell_levels |-> Cardinality({i \in 1..Len(g.grid_levels) : g.grid_levels[i].side = "sell"}),
     active_orders |-> Cardinality({i \in 1..Len(g.grid_levels) :
                                        g.grid_levels[i].order_id # 0})]

\* the element of a set of one; {F(x) : x \in {e}} names the result e of a call once,
\* as an assignment to a local does
Value(S) == CHOOSE x \in S : TRUE

\* The calls one step of the bot makes to its collaborators (the venue's ticker, the
\* database) are numbered in the order the code makes them: w.calls counts those made,
\* w.faults holds the numbers of those that raise, w.exc says that an exception is
\* propagating, w.raised counts the calls that raised.
Raises(w) == (w.calls + 1) \in w.faults
Called(w) == [w EXCEPT !.calls = @ + 1]
Raised(w) == [Called(w) EXCEPT !.raised = @ + 1, !.exc = TRUE]

\* save_bot_state / save_strategy_state: one row of the store is written
put_state(w, key, status) ==
    LET old == IF w.db.state = <<>> THEN <<>> ELSE w.db.state[1]
    IN [w EXCEPT !.db.state = <<[k \in (DOMAIN old) \cup {key} |->
                                    IF k = key THEN status ELSE old[k]]>>]

\* _save_state: the risk manager's status, then each strategy's, a row at a time
save_state(w) ==
    IF Raises(w) THEN Raised(w)
    ELSE LET w1 == put_state(Called(w), "risk_manager", risk_get_status(w.risk))
         IN IF Raises(w1) THEN Raised(w1)
            ELSE LET w2 == put_state(Called(w1), "Grid", grid_get_status(w.grid))
                 IN IF Raises(w2) THEN Raised(w2)
                    ELSE put_state(Called(w2), "DCA", dca_get_status(w.dca))

\* _calculate_portfolio_value: total_value
calculate_portfolio_value(e, p) ==
    LET balances == get_all_balances(e)
        usd == IF HasBalance(balances, "USD") THEN balances["USD"].total ELSE 0
        base == IF HasBalance(balances, Pair.base) /\ balances[Pair.base].total > 0
                THEN balances[Pair.base].total * p ELSE 0
    IN usd + base

submission_failed_raising(x) == [Raised(x) EXCEPT !.tr = Append(@, "failed")]

\* except Exception as e: logger.error("Failed to execute signal"); return None
\* (bot.py:196-198), on the call x was about to make raising
submission_failed(x) == [Called(x) EXCEPT !.raised = @ + 1, !.tr = Append(@, "failed")]

\* the try block of _execute_signal (bot.py:128-198): the order is created, logged and
\* saved, bound to its grid level, and when it came back closed its trade is saved
\* and a DCA buy recorded; an exception of create_market_order's get_ticker, save_order
\* or save_trade is caught and None returned, with what was done before it left done
place_order(w, signal, strategy, p, t) ==
    LET ticker == Ticker(signal.symbol, p)
        market == signal.order_type = "market"
    IN IF market /\ Raises(w) THEN submission_failed(w)
       ELSE LET w1 == IF market THEN Called(w) ELSE w
                created == IF market
                           THEN create_market_order(w1.ex, signal.symbol, signal.signal_type,
                                                    signal.amount, ticker)
                           ELSE create_limit_order(w1.ex, signal.symbol, signal.signal_type,
                                                   signal.amount, signal.price)
                order == created[2]
                fill_price == IF signal.price # 0 THEN signal.price ELSE ticker.last
                saved == Append(w.db.orders,
                                [order_id |-> order.id, side |-> signal.signal_type,
                                 order_type |-> signal.order_type, price |-> signal.price,
                                 amount |-> signal.amount, status |-> order.status,
                                 strategy |-> strategy])
                closed == order.status = "closed"
                w2 == [w1 EXCEPT !.ex = created[1]]
            IN IF Raises(w2) THEN submission_failed(w2)
               ELSE LET w3 == [Called(w2) EXCEPT
                                 !.db.orders = saved,
                                 !.grid = IF strategy = "Grid" /\ signal.price # 0
                                          THEN set_order_id(@, signal.price, order.id)
                                          ELSE @]
                    IN IF ~closed THEN [w3 EXCEPT !.tr = Append(@, "order")]
                       ELSE IF Raises(w3) THEN submission_failed(w3)
                       ELSE [Called(w3) EXCEPT
                               !.db.trades = Append(@, [order_id |-> order.id,
                                                        side |-> signal.signal_type,
                                                        price |-> fill_price,
                                                        amount |-> signal.amount,
                                                        strategy |-> strategy]),
                               !.dca = IF strategy = "DCA" /\ signal.signal_type = "buy"
                                       THEN record_buy(@, fill_price, signal.amount, t)
                                       ELSE @,
                               !.tr = Append(@, "order")]

\* self.risk_manager under the RiskConfig of this bot.  validate_signal compares the
\* trade value with current_portfolio_value * max_risk_per_trade_pct and reads nothing
\* else of the configuration, so under a limit of k times the default 2% it decides as
\* it does under the default limit on k times the portfolio value.
risk_manager(w) ==
    [w.risk EXCEPT !.current_portfolio_value =
                      (@ * w.config.max_risk_per_trade_pct) \div MaxRiskPerTradePct]

execute_signal_submitting_rejected(w, signal, strategy, p, t) ==
    IF Raises(w) THEN Raised(w)
    ELSE LET ticker == Ticker(signal.symbol, p)
             balances == get_all_balances(w.ex)
             verdict == validate_signal(risk_manager(w), signal, balances, ticker)
             placed == place_order(Called(w), signal, strategy, p, t)
         IN IF ~verdict[1] THEN [placed EXCEPT !.tr = Append(w.tr, "rejected")]
            ELSE placed

\* _execute_signal: get_ticker (bot.py:118) is outside the try, its exception leaves
\* _execute_signal; a rejected signal is logged and dropped
execute_signal(w, signal, strategy, p, t) ==
    IF Raises(w) THEN Raised(w)
    ELSE LET ticker == Ticker(signal.symbol, p)
             balances == get_all_balances(w.ex)
             verdict == validate_signal(risk_manager(w), signal, balances, ticker)
         IN IF ~verdict[1] THEN [Called(w) EXCEPT !.tr = Append(@, "rejected")]
            ELSE place_order(Called(w), signal, strategy, p, t)

\* for signal in signals: await self._execute_signal(signal, strategy)
RECURSIVE execute_signals(_, _, _, _, _, _)
execute_signals(w, signals, i, strategy, p, t) ==
    IF i > Len(signals) \/ w.exc THEN w
    ELSE Value({execute_signals(w1, signals, i + 1, strategy, p, t) :
                   w1 \in {execute_signal(w, signals[i], strategy, p, t)}})

\* strategy.on_order_filled of the k-th strategy, and the execution of its signals.
\* The GridStrategy asks the venue for the ticker when a sell level was filled
\* (grid.py:173), after it has marked the level
notify_strategy(w, k, order, p, t) ==
    LET w0 == [w EXCEPT !.tr = Append(@, "on_order_filled")]
        asks == \E i \in 1..Len(w.grid.grid_levels) :
                   /\ w.grid.grid_levels[i].order_id = order.id
                   /\ w.grid.grid_levels[i].side = "sell"
                   /\ \A j \in 1..(i - 1) : w.grid.grid_levels[j].order_id # order.id
    IN IF Strategies[k] = "Grid"
       THEN Value({IF asks /\ Raises(w0) THEN [Raised(w0) EXCEPT !.grid = r[1]]
                   ELSE execute_signals([(IF asks THEN Called(w0) ELSE w0) EXCEPT !.grid = r[1]],
                                        r[2], 1, "Grid", p, t) :
                      r \in {grid_on_order_filled(w.grid, order.id, order.symbol)}})
       ELSE w0      \* DCAStrategy.on_order_filled returns []

notify_strategies_none(w, k, order, p, t) == w

RECURSIVE notify_strategies(_, _, _, _, _)
\* for strategy in self.strategies: on_order_filled, and its signals executed
notify_strategies(w, k, order, p, t) ==
    IF k > Len(Strategies) \/ w.exc THEN w
    ELSE Value({notify_strategies(w1, k + 1, order, p, t) :
                   w1 \in {notify_strategy(w, k, order, p, t)}})

\* the loop of _check_filled_orders over the filled orders from the i-th on:
\* update_order_status, save_trade, then the strategies
RECURSIVE reconcile_fills(_, _, _, _, _)
reconcile_fills(w, filled_orders, i, p, t) ==
    IF i > Len(filled_orders) \/ w.exc THEN w
    ELSE LET order == filled_orders[i]
             Upd(o) == IF o.order_id = order.id THEN [o EXCEPT !.status = order.status] ELSE o
         IN IF Raises(w) THEN Raised(w)
            ELSE LET w1 == [Called(w) EXCEPT !.db.orders = [j \in 1..Len(@) |-> Upd(@[j])]]
                 IN IF Raises(w1) THEN Raised(w1)
                    ELSE LET w2 == [Called(w1) EXCEPT
                                      !.db.trades = Append(@, [order_id |-> order.id,
                                                               side |-> order.side,
                                                               price |-> order.price,
                                                               amount |-> order.amount,
                                                               strategy |-> ""]),
                                      !.tr = Append(@, "trade")]
                         IN Value({reconcile_fills(w3, filled_orders, i + 1, p, t) :
                                      w3 \in {notify_strategies(w2, 1, order, p, t)}})

\* _check_filled_orders (paper trading).  check_and_fill_paper_orders asks the venue for
\* the ticker once for every open limit order (exchange.py:264); when one of these calls
\* raises, the orders before it have been filled in place and the list of them is lost
check_filled_orders(w, p, t) ==
    LET ticker == Ticker(Pair.symbol, p)
        orders == w.ex.orders
        open == {i \in 1..Len(orders) : orders[i].status = "open" /\ orders[i].type = "limit"}
        nth(i) == Cardinality({j \in open : j <= i})
        failing == {i \in open : (w.calls + nth(i)) \in w.faults}
        w0 == [w EXCEPT !.tr = Append(@, "check_filled_orders")]
    IN IF failing = {}
       THEN Value({reconcile_fills([w0 EXCEPT !.ex = r[1], !.calls = @ + Cardinality(open)],
                                   r[2], 1, p, t) :
                      r \in {check_and_fill_paper_orders(w.ex, ticker)}})
       ELSE LET n == CHOOSE i \in failing : \A j \in failing : i <= j
            IN Value({[w0 EXCEPT !.ex = [balances |-> r[1].balances,
                                        orders |-> r[1].orders \o SubSeq(orders, n, Len(orders))],
                                !.calls = @ + nth(n),
                                !.raised = @ + 1,
                                !.exc = TRUE] :
                         r \in {check_and_fill_paper_orders(
                                    [w.ex EXCEPT !.orders = SubSeq(@, 1, n - 1)], ticker)}})

strategy_failed_raising(w) == [w EXCEPT !.tr = Append(@, "strategy_error")]

\* except Exception as e: logger.error("Strategy ... error") (bot.py:268-269)
strategy_failed(w) == [w EXCEPT !.exc = FALSE, !.tr = Append(@, "strategy_error")]

\* one pass of the strategy loop (bot.py:257-269): strategy.evaluate for every ticker
\* and the execution of its signals, inside the try of the loop body
evaluate_strategy(w, k, p, t) ==
    LET ticker == Ticker(Pair.symbol, p)
        balances == get_all_balances(w.ex)
        w0 == [w EXCEPT !.tr = Append(@, "evaluate")]
        executed ==
            IF Strategies[k] = "Grid"
            THEN {execute_signals([w0 EXCEPT !.grid = r[1]], r[2], 1, "Grid", p, t) :
                     r \in {grid_evaluate(w.grid, Pair.symbol, ticker, balances)}}
            ELSE {execute_signals([w0 EXCEPT !.dca = r[1]], r[2], 1, "DCA", p, t) :
                     r \in {dca_evaluate(w.dca, Pair.symbol, ticker, balances, t)}}
    IN Value({IF done.exc THEN strategy_failed(done) ELSE done : done \in executed})

cycle_failed_raising(w) == [w EXCEPT !.tr = Append(@, "error")]

\* except Exception as e: logger.error("Error in trading cycle") (bot.py:274-275)
cycle_failed(w) == [w EXCEPT !.exc = FALSE, !.tr = Append(@, "error")]

----------------------------------------------------------------------------
(* The RiskManager driven call by call *)

Max(a, b) == IF a >= b THEN a ELSE b

NoCall == [op |-> "none", ret |-> TRUE, reset |-> FALSE, pre_paused |-> FALSE]
\* base: the peak the RiskManager started from (initialize); max_passed: the largest
\* value passed to update_portfolio_value since, when updated; fired: the drawdown
\* breaker has paused trading and is_paused has not been false since
NoHist == [base |-> 0, max_passed |-> 0, updated |-> FALSE, fired |-> FALSE]

\* load_config: the RiskConfig of the defaults (risk limits in percent)
Config == [max_risk_per_trade_pct |-> MaxRiskPerTradePct]

\* TradingBot(c): a fresh RiskManager, exchange connector and database, nothing
\* running yet
ConstructedWith(c) ==
    /\ config = c
    /\ failures = 0
    /\ now = 2      \* the clock is far from the epoch: now - 0.0 is more than a day
    /\ risk = RiskState
    /\ last = NoCall
    /\ hist = NoHist
    /\ pc = "start"
    /\ exchange = PaperExchange
    /\ dca = DCAState
    /\ grid = GridState
    /\ db = Database
    /\ tr = <<>>
    /\ idx = 1
    /\ shutdown_event = FALSE
    /\ original = [risk |-> RiskState, dca |-> DCAState, grid |-> GridState]
    /\ restarts = 0

Constructed == ConstructedWith(Config)

RiskInit == Constructed /\ market_price = 100

\* time passes, while the loop sleeps (or before it starts)
Tick ==
    /\ pc \in {"start", "wait"}
    /\ now < MaxTime
    /\ now' = now + 1
    /\ UNCHANGED <<risk, last, hist, botvars>>

\* initialize, under the guard of its one caller (bot.py:288): never initialized yet
DoInitialize(V) ==
    \E v \in V :
        /\ risk.initial_portfolio_value = 0
        /\ risk' = initialize(risk, v, now)
        /\ last' = [op |-> "initialize", ret |-> TRUE, reset |-> FALSE,
                    pre_paused |-> risk.is_paused]
        /\ hist' = [base |-> v, max_passed |-> 0, updated |-> FALSE, fired |-> hist.fired]
        /\ UNCHANGED <<now, botvars>>

DoUpdatePortfolioValue(V) ==
    \E v \in V :
        /\ risk' = update_portfolio_value(risk, v, now)
        /\ last' = [op |-> "update", ret |-> TRUE, reset |-> DailyResetDue(risk, now),
                    pre_paused |-> risk.is_paused]
        /\ hist' = [hist EXCEPT !.max_passed = IF hist.updated THEN Max(@, v) ELSE v,
                                !.updated = TRUE,
                                !.fired = \/ /\ risk'.peak_portfolio_value # 0
                                             /\ DrawdownBreached(risk')
                                          \/ @ /\ risk'.is_paused]
        /\ UNCHANGED <<now, botvars>>

DoResumeTrading ==
    /\ risk' = resume_trading(risk)[1]
    /\ last' = [op |-> "resume", ret |-> resume_trading(risk)[2], reset |-> FALSE,
                pre_paused |-> risk.is_paused]
    /\ hist' = [hist EXCEPT !.fired = @ /\ risk'.is_paused]
    /\ UNCHANGED <<now, botvars>>

DoForceResume ==
    /\ risk' = force_resume(risk)
    /\ last' = [op |-> "force", ret |-> TRUE, reset |-> FALSE,
                pre_paused |-> risk.is_paused]
    /\ hist' = [hist EXCEPT !.fired = FALSE]
    /\ UNCHANGED <<now, botvars>>

RiskNext ==
    \/ Tick
    \/ DoInitialize(Values)
    \/ DoUpdatePortfolioValue(Values)
    \/ DoResumeTrading
    \/ DoForceResume

RiskSpec == RiskInit /\ [][RiskNext]_vars

\* get_status of the RiskManager is loaded into a fresh RiskManager, which takes its place
DoLoadState ==
    /\ restarts < MaxRestarts
    /\ risk.initial_portfolio_value # 0
    /\ risk' = load_state(risk_get_status(risk))
    /\ original' = [original EXCEPT !.risk = risk]
    /\ restarts' = restarts + 1
    /\ last' = [op |-> "load_state", ret |-> TRUE, reset |-> FALSE,
                pre_paused |-> risk.is_paused]
    /\ UNCHANGED <<now, hist, pc, market_price, exchange, dca, grid, db, tr, idx,
                   shutdown_event, config, failures>>

\* the portfolio values of the restored RiskManager's world (dollars)
RestoreValues == {90, 94, 100}

RestoreNext ==
    \/ Tick
    \/ DoInitialize(RestoreValues)
    \/ DoUpdatePortfolioValue(RestoreValues)
    \/ DoLoadState

RestoreSpec == RiskInit /\ [][RestoreNext]_vars

\* The values and signals validate_signal is exercised on
ValidateValues == {95, 100}
SignalTypes == {"buy", "sell", "hold"}
SignalPrices == {0, 2}
SignalAmounts == {0, 1, 2}
BalanceSets ==
    {[c \in D |-> Balance(IF c = "USD" THEN u ELSE 1)] :
        D \in {{"USD", "BTC"}, {"USD"}, {"BTC"}}, u \in {1, 2}}

DoValidateSignal ==
    \E type \in SignalTypes, price \in SignalPrices, amount \in SignalAmounts,
       balances \in BalanceSets :
        LET signal == Signal(type, "BTC/USD", price, amount,
                             IF price = 0 THEN "market" ELSE "limit", "")
            ticker == [symbol |-> "BTC/USD", last |-> 1]
        IN /\ last' = [op |-> "validate", ret |-> validate_signal(risk, signal, balances, ticker),
                       reset |-> FALSE, pre_paused |-> risk.is_paused,
                       signal |-> signal, balances |-> balances, ticker |-> ticker]
           /\ UNCHANGED <<now, risk, hist, botvars>>

ValidateNext ==
    \/ DoInitialize(ValidateValues)
    \/ DoUpdatePortfolioValue(ValidateValues)
    \/ DoValidateSignal

ValidateSpec == RiskInit /\ [][ValidateNext]_vars

----------------------------------------------------------------------------
(* The DCAStrategy driven as the cycle drives it: evaluate for a ticker, then *)
(* record_buy when the market order of its signal has filled                  *)

\* the prices the tickers carry, each a drop of at least 3% from the next
DcaPrices == {91, 94, 97, 100}

\* the balances given to evaluate: a funded quote balance, one too small for the
\* minimum order size, an empty one, none
DcaBalances ==
    {[USD |-> Balance(10000)], [USD |-> Balance(10)], [USD |-> Balance(0)],
     [BTC |-> Balance(1)]}

DcaEvaluate ==
    \E p \in DcaPrices, balances \in DcaBalances, symbol \in {Pair.symbol, "ETH/USD"} :
        LET r == dca_evaluate(dca, symbol, Ticker(symbol, p), balances, now)
        IN /\ dca' = r[1]
           /\ last' = [op |-> "evaluate", ret |-> r[2], reset |-> FALSE,
                       pre_paused |-> FALSE, pre |-> dca, price |-> p, t |-> now,
                       symbol |-> symbol,
                       free |-> IF HasBalance(balances, Pair.quote)
                                THEN balances[Pair.quote].free ELSE 0,
                       funded |-> symbol = Pair.symbol /\ HasBalance(balances, Pair.quote)
                                      /\ balances[Pair.quote].free > 0]
           /\ UNCHANGED <<now, risk, hist, pc, market_price, exchange, grid, db, tr, idx,
                          shutdown_event, original, restarts, config, failures>>

\* _execute_signal after the market order of the signal closed (bot.py:181-182)
DcaRecordBuy ==
    /\ last.op = "evaluate"
    /\ last.ret # <<>>
    /\ dca' = record_buy(dca, last.price, last.ret[1].amount, now)
    /\ last' = [op |-> "record_buy", ret |-> TRUE, reset |-> FALSE, pre_paused |-> FALSE,
                pre |-> dca]
    /\ UNCHANGED <<now, risk, hist, pc, market_price, exchange, grid, db, tr, idx,
                   shutdown_event, original, restarts, config, failures>>

\* get_status of the strategy is loaded into a fresh DCAStrategy, which takes its place
DcaLoadState ==
    /\ restarts < MaxRestarts
    /\ dca' = dca_load_state(dca_get_status(dca))
    /\ original' = [original EXCEPT !.dca = dca]
    /\ restarts' = restarts + 1
    /\ last' = [op |-> "dca_load_state", ret |-> TRUE, reset |-> FALSE,
                pre_paused |-> FALSE, pre |-> dca]
    /\ UNCHANGED <<now, risk, hist, pc, market_price, exchange, grid, db, tr, idx,
                   shutdown_event, config, failures>>

DcaNext ==
    \/ Tick
    \/ DcaEvaluate
    \/ DcaRecordBuy

DcaSpec == RiskInit /\ [][DcaNext]_vars

\* record_buy called directly, with any price and any positive amount; hist keeps
\* the sums of what was passed
RecordPrices == {100, 120}
RecordAmounts == {1, 2}

DoRecordBuy ==
    \E p \in RecordPrices, amount \in RecordAmounts :
        /\ dca.buys_today < MaxRecordBuys
        /\ dca' = record_buy(dca, p, amount, now)
        /\ hist' = [invested |-> Get(hist, "invested", 0) + p * amount,
                    bought |-> Get(hist, "bought", 0) + amount,
                    calls |-> Get(hist, "calls", <<>>) \o <<<<amount, p>>>>]
        /\ last' = [op |-> "record_buy", ret |-> TRUE, reset |-> FALSE,
                    pre_paused |-> FALSE, pre |-> dca]
        /\ UNCHANGED <<now, risk, pc, market_price, exchange, grid, db, tr, idx,
                       shutdown_event, original, restarts, config, failures>>

RecordBuyNext ==
    \/ Tick
    \/ DoRecordBuy

RecordBuySpec == RiskInit /\ [][RecordBuyNext]_vars

DcaRestoreNext ==
    \/ Tick
    \/ DcaEvaluate
    \/ DcaRecordBuy
    \/ DcaLoadState

DcaRestoreSpec == RiskInit /\ [][DcaRestoreNext]_vars

----------------------------------------------------------------------------
(* The GridStrategy driven call by call *)

GridPrices == {10, 100}             \* ticker.last
GridQuotes == {0, 100, 10000}       \* the free quote balance, cents
GridOrderIds == {1, 2}              \* the order ids given to set_order_id
GridOrderPrices == {10, 50, 95, 96, 100}    \* the prices given to set_order_id

GridEvaluate ==
    \E p \in GridPrices, q \in GridQuotes, has_quote \in BOOLEAN,
       symbol \in {Pair.symbol, "ETH/USD"} :
        LET balances == IF has_quote THEN [USD |-> Balance(q)] ELSE [BTC |-> Balance(q)]
            r == grid_evaluate(grid, symbol, Ticker(symbol, p), balances)
        IN /\ grid' = r[1]
           /\ last' = [op |-> "evaluate", ret |-> r[2], reset |-> FALSE,
                       pre_paused |-> FALSE, pre |-> grid, price |-> p, quote |-> q,
                       own |-> symbol = Pair.symbol, has_quote |-> has_quote]
           /\ UNCHANGED <<now, risk, hist, pc, market_price, exchange, dca, db, tr, idx,
                          shutdown_event, original, restarts, config, failures>>

GridSetOrderId ==
    \E p \in GridOrderPrices, order_id \in GridOrderIds :
        /\ grid' = set_order_id(grid, p, order_id)
        /\ last' = [op |-> "set_order_id", ret |-> TRUE, reset |-> FALSE,
                    pre_paused |-> FALSE, pre |-> grid, price |-> p, order_id |-> order_id]
        /\ UNCHANGED <<now, risk, hist, pc, market_price, exchange, dca, db, tr, idx,
                       shutdown_event, original, restarts, config, failures>>

GridOnOrderFilled ==
    \E order_id \in GridOrderIds \cup {3} :
        LET r == grid_on_order_filled(grid, order_id, Pair.symbol)
        IN /\ grid' = r[1]
           /\ last' = [op |-> "on_order_filled", ret |-> r[2], reset |-> FALSE,
                       pre_paused |-> FALSE, pre |-> grid, order_id |-> order_id]
           /\ UNCHANGED <<now, risk, hist, pc, market_price, exchange, dca, db, tr, idx,
                          shutdown_event, original, restarts, config, failures>>

GridNext ==
    \/ GridEvaluate
    \/ GridSetOrderId
    \/ GridOnOrderFilled

GridSpec == RiskInit /\ [][GridNext]_vars

----------------------------------------------------------------------------
(* TradingBot.run and _run_cycle, step by step *)

World ==
    [risk |-> risk, ex |-> exchange, dca |-> dca, grid |-> grid, db |-> db, tr |-> tr,
     config |-> config, calls |-> 0, faults |-> {}, raised |-> 0, exc |-> FALSE]

\* the bot in a step whose collaborator calls numbered in f raise
Faulty(f) == [World EXCEPT !.faults = f]

\* which collaborator calls of a step the environment lets raise: none, or one of the
\* first MaxFaultCall while fewer than MaxFailures have raised
FaultSets ==
    {{}} \cup (IF failures < MaxFailures THEN {{n} : n \in 1..MaxFaultCall} ELSE {})

Commit(w) ==
    /\ risk' = w.risk
    /\ exchange' = w.ex
    /\ dca' = w.dca
    /\ grid' = w.grid
    /\ db' = w.db
    /\ tr' = w.tr
    /\ failures' = failures + w.raised

\* where run stands after a step of _run_cycle: an exception that reaches the except
\* clause of _run_cycle ends the cycle, which returns to the wait of run like any other
\* cycle; one that left _run_cycle would be caught in run (bot.py:312-314) and answered
\* with the back-off sleep
Resume(w, handled, next) ==
    IF handled.exc THEN "backoff" ELSE IF w.exc THEN "wait" ELSE next

\* run, up to the main loop: nothing is persisted yet, so _load_state loads nothing;
\* the risk manager is initialized with the portfolio value
Start ==
    /\ pc = "start"
    /\ risk' = IF risk.initial_portfolio_value = 0
               THEN initialize(risk, calculate_portfolio_value(exchange, market_price), now)
               ELSE risk
    /\ pc' = "loop"
    /\ UNCHANGED <<failures, config, original, restarts, now, last, hist,
                   market_price, exchange, dca, grid, db, tr, idx,
                   shutdown_event>>

SkipsTradingNever(risk_status) == FALSE

\* if risk_status["is_paused"]: return
SkipsTrading(risk_status) == risk_status.is_paused

CycleBeginWithoutRiskUpdate ==
    /\ pc = "loop"
    /\ db' = [db EXCEPT !.snapshot = <<calculate_portfolio_value(exchange, market_price)>>]
    /\ tr' = <<"valuation", "snapshot">>
    /\ pc' = "fills"
    /\ UNCHANGED <<failures, config, original, restarts, now, risk, last, hist,
                   market_price, exchange, dca, grid, idx, shutdown_event>>

\* _run_cycle from its start to the pause check: valuation, risk update, snapshot
CycleBegin ==
    /\ pc = "loop"
    /\ LET total_value == calculate_portfolio_value(exchange, market_price)
           updated == update_portfolio_value(risk, total_value, now)
       IN /\ risk' = updated
          /\ db' = [db EXCEPT !.snapshot = <<total_value>>]
          /\ IF SkipsTrading(risk_get_status(updated))
             THEN /\ tr' = <<"valuation", "update_portfolio_value", "snapshot", "paused">>
                  /\ pc' = "wait"
             ELSE /\ tr' = <<"valuation", "update_portfolio_value", "snapshot">>
                  /\ pc' = "fills"
    /\ UNCHANGED <<failures, config, original, restarts, now, last, hist,
                   market_price, exchange, dca, grid, idx, shutdown_event>>

\* _run_cycle failing before the pause check: the venue does not answer the valuation
\* (nothing has changed), or the snapshot cannot be written (the risk state has)
CycleBeginFails ==
    /\ pc = "loop"
    /\ failures < MaxFailures
    /\ failures' = failures + 1
    /\ \/ /\ tr' = <<"error">>
          /\ UNCHANGED risk
       \/ /\ risk' = update_portfolio_value(
                         risk, calculate_portfolio_value(exchange, market_price), now)
          /\ tr' = <<"valuation", "update_portfolio_value", "error">>
    /\ pc' = "wait"
    /\ UNCHANGED <<config, original, restarts, now, last, hist,
                   market_price, exchange, dca, grid, db, idx,
                   shutdown_event>>

\* await self._check_filled_orders(), then the tickers and balances the strategies are
\* given (bot.py:248-253)
CheckFilledOrders ==
    /\ pc = "fills"
    /\ \E f \in FaultSets :
          \E checked \in {check_filled_orders(Faulty(f), market_price, now)} :
             LET w == IF checked.exc THEN checked
                      ELSE IF Raises(checked) THEN Raised(checked) ELSE Called(checked)
                 handled == IF w.exc THEN cycle_failed(w) ELSE w
             IN /\ Commit(handled)
                /\ pc' = Resume(w, handled, "eval")
    /\ idx' = 1
    /\ UNCHANGED <<config, original, restarts, now, last, hist, market_price,
                   shutdown_event>>

\* one pass of `for strategy in self.strategies`
EvaluateStrategy ==
    /\ pc = "eval"
    /\ \E f \in FaultSets :
          \E w \in {evaluate_strategy(Faulty(f), idx, market_price, now)} :
             LET handled == IF w.exc THEN cycle_failed(w) ELSE w
                 more == idx < Len(Strategies)
             IN /\ Commit(handled)
                /\ pc' = Resume(w, handled, IF more THEN "eval" ELSE "save")
                /\ idx' = IF more /\ ~w.exc THEN idx + 1 ELSE 1
    /\ UNCHANGED <<config, original, restarts, now, last, hist, market_price,
                   shutdown_event>>

\* await self._save_state(), the last statement of _run_cycle
SaveState ==
    /\ pc = "save"
    /\ \E f \in FaultSets :
          \E saved \in {save_state(Faulty(f))} :
             LET w == IF saved.exc THEN saved
                      ELSE [saved EXCEPT !.tr = Append(@, "save_state")]
                 handled == IF w.exc THEN cycle_failed(w) ELSE w
             IN /\ Commit(handled)
                /\ pc' = Resume(w, handled, "wait")
    /\ UNCHANGED <<config, original, restarts, now, last, hist, market_price, idx,
                   shutdown_event>>

WaitIgnoringShutdown ==
    /\ pc = "wait"
    /\ pc' = "loop"
    /\ UNCHANGED <<failures, config, original, restarts, now, risk, last, hist,
                   market_price, exchange, dca, grid, db, tr, idx,
                   shutdown_event>>

\* wait_for(self._shutdown_event.wait(), timeout): break when the event is set,
\* the next cycle on the timeout
Wait ==
    /\ pc = "wait"
    /\ pc' = IF shutdown_event THEN "shutdown" ELSE "loop"
    /\ UNCHANGED <<failures, config, original, restarts, now, risk, last, hist,
                   market_price, exchange, dca, grid, db, tr, idx,
                   shutdown_event>>

\* _shutdown: the final save; an exception of _save_state leaves run
Shutdown ==
    /\ pc = "shutdown"
    /\ \E f \in FaultSets :
          \E saved \in {save_state([Faulty(f) EXCEPT !.tr = <<"shutdown">>])} :
             Commit([saved EXCEPT !.tr = Append(@, IF saved.exc THEN "error"
                                                  ELSE "save_state")])
    /\ pc' = "done"
    /\ UNCHANGED <<config, original, restarts, now, last, hist, market_price, idx,
                   shutdown_event>>

\* stop(), from the signal handler
Stop ==
    /\ pc # "done"
    /\ ~shutdown_event
    /\ shutdown_event' = TRUE
    /\ UNCHANGED <<failures, config, original, restarts, now, risk, last, hist,
                   pc, market_price, exchange, dca, grid, db, tr, idx>>

\* the venue's price moves, while the loop sleeps (or before it starts)
PriceMove ==
    /\ pc \in {"start", "wait"}
    /\ market_price' \in Prices \ {market_price}
    /\ UNCHANGED <<failures, config, original, restarts, now, risk, last, hist,
                   pc, exchange, dca, grid, db, tr, idx,
                   shutdown_event>>

Init == Constructed /\ market_price \in Prices

Next ==
    \/ Start
    \/ CycleBegin
    \/ CycleBeginFails
    \/ CheckFilledOrders
    \/ EvaluateStrategy
    \/ SaveState
    \/ Wait
    \/ Shutdown
    \/ Stop
    \/ PriceMove
    \/ Tick

Spec == Init /\ [][Next]_vars

\* a new process after a clean shutdown: __init__ builds fresh objects (the paper
\* balances and paper orders are in memory only), and _load_state of run loads the
\* risk manager's saved status and that of every strategy with a load_state method,
\* which the GridStrategy has not
Restart ==
    /\ pc = "done"
    /\ restarts < MaxRestarts
    /\ risk' = IF db.state # <<>> /\ "risk_manager" \in DOMAIN db.state[1]
               THEN load_state(db.state[1].risk_manager) ELSE RiskState
    /\ dca' = IF db.state # <<>> /\ "DCA" \in DOMAIN db.state[1]
              THEN dca_load_state(db.state[1].DCA) ELSE DCAState
    /\ grid' = GridState
    /\ exchange' = PaperExchange
    /\ pc' = "start"
    /\ tr' = <<>>
    /\ idx' = 1
    /\ shutdown_event' = FALSE
    /\ original' = [risk |-> risk, dca |-> dca, grid |-> grid]
    /\ restarts' = restarts + 1
    /\ UNCHANGED <<now, last, hist, market_price, db, config, failures>>

RestartNext ==
    \/ Start
    \/ CycleBegin
    \/ CycleBeginFails
    \/ CheckFilledOrders
    \/ EvaluateStrategy
    \/ SaveState
    \/ Wait
    \/ Shutdown
    \/ Stop
    \/ PriceMove
    \/ Tick
    \/ Restart

RestartSpec == Init /\ [][RestartNext]_vars

\* where run can stand with a step to take: the statement it is at and, in the strategy
\* loop, the strategy whose turn it is
RunLocations ==
    {<<l, 1>> : l \in {"start", "loop", "fills", "eval", "save", "wait", "shutdown"}}
        \cup {<<"eval", k>> : k \in 1..Len(Strategies)}

\* run is one coroutine of the event loop, which keeps running it: the wait ends, by
\* its timeout or by the event, and run never stays for ever at a statement it can
\* execute.  Every step of run is enabled wherever run stands and moves <<pc, idx>>,
\* which nothing else moves, so this is weak fairness of each of its steps; the clock,
\* the venue's prices and the signal are not obliged to anything
FairSpec ==
    /\ Init
    /\ [][Next]_vars
    /\ WF_vars(Wait)
    /\ \A l \in RunLocations : []<>(<<pc, idx>> # l)

----------------------------------------------------------------------------
(* The bot under a risk configuration that accepts the grid's orders (with the *)
(* default 2% per trade every grid order of the paper account is rejected and  *)
(* no limit order is ever open): its cycles see paper fills                    *)

\* RiskConfig(max_risk_per_trade_pct=0.1)
LenientConfig == [max_risk_per_trade_pct |-> 10]

LenientInit == ConstructedWith(LenientConfig) /\ market_price \in Prices

\* a cycle starts, while the paper exchange holds fewer than MaxGridOrders orders
LenientCycleBegin ==
    /\ Len(exchange.orders) < MaxGridOrders
    /\ CycleBegin

LenientNext ==
    \/ Start
    \/ LenientCycleBegin
    \/ CycleBeginFails
    \/ CheckFilledOrders
    \/ EvaluateStrategy
    \/ SaveState
    \/ Wait
    \/ Shutdown
    \/ Stop
    \/ PriceMove
    \/ Tick

LenientSpec == LenientInit /\ [][LenientNext]_vars

\* The same bot while the price moves between 100 and 95: the grid's buy orders fill
\* and the portfolio stays within the risk limits.  The scheduling of run's steps is
\* that of FairSpec.
ReconcilePrices == {95, 100}

ReconcileInit == ConstructedWith(LenientConfig) /\ market_price = 100

ReconcilePriceMove ==
    /\ pc \in {"start", "wait"}
    /\ market_price' \in ReconcilePrices \ {market_price}
    /\ UNCHANGED <<failures, config, original, restarts, now, risk, last, hist, pc,
                   exchange, dca, grid, db, tr, idx, shutdown_event>>

ReconcileNext ==
    \/ Start
    \/ LenientCycleBegin
    \/ CycleBeginFails
    \/ CheckFilledOrders
    \/ EvaluateStrategy
    \/ SaveState
    \/ Wait
    \/ Shutdown
    \/ Stop
    \/ ReconcilePriceMove
    \/ Tick

ReconcileSpec ==
    /\ ReconcileInit
    /\ [][ReconcileNext]_vars
    /\ WF_vars(Wait)
    /\ \A l \in RunLocations : []<>(<<pc, idx>> # l)

----------------------------------------------------------------------------
(* _execute_signal called signal by signal, as _run_cycle and                 *)
(* _check_filled_orders call it, on a bot whose portfolio has been valued     *)

\* the portfolio value the risk manager is initialized with (the paper balance), and
\* the one it is updated with: a fall of 11%, which pauses trading
ExecuteInitialValues == {10000}
ExecuteValues == {8900}
\* the signals _execute_signal is given.  At the quoted price of 100 an amount of 2 is
\* worth exactly 2% of the portfolio, an amount of 3 more; 95 is the lowest buy level
\* of the grid laid out around 100
ExecuteSignals ==
    {Signal("buy", Pair.symbol, 0, 2, "market", ""),
     Signal("buy", Pair.symbol, 0, 3, "market", ""),
     Signal("buy", Pair.symbol, 95, 2, "limit", ""),
     Signal("sell", Pair.symbol, 0, 2, "market", "")}

ExecuteGridEvaluate ==
    /\ ~grid.initialized
    /\ LET r == grid_evaluate(grid, Pair.symbol, Ticker(Pair.symbol, market_price),
                              get_all_balances(exchange))
       IN /\ grid' = r[1]
          /\ last' = [op |-> "evaluate", ret |-> r[2], reset |-> FALSE,
                      pre_paused |-> risk.is_paused]
    /\ UNCHANGED <<now, risk, hist, pc, market_price, exchange, dca, db, tr, idx,
                   shutdown_event, original, restarts, config, failures>>

\* await self._execute_signal(signal, strategy)
DoExecuteSignal ==
    /\ Len(exchange.orders) < MaxExecuteOrders
    /\ \E signal \in ExecuteSignals, strategy \in {Strategies[k] : k \in 1..Len(Strategies)},
          f \in FaultSets :
          LET w == execute_signal([Faulty(f) EXCEPT !.tr = <<>>], signal, strategy,
                                  market_price, now)
          IN /\ Commit(w)
             /\ last' = [op |-> "execute_signal", ret |-> ~w.exc, reset |-> FALSE,
                         pre_paused |-> risk.is_paused, signal |-> signal,
                         strategy |-> strategy]
    /\ UNCHANGED <<now, hist, pc, market_price, idx, shutdown_event, original, restarts,
                   config>>

ExecuteNext ==
    \/ DoInitialize(ExecuteInitialValues)
    \/ DoUpdatePortfolioValue(ExecuteValues)
    \/ ExecuteGridEvaluate
    \/ DoExecuteSignal

ExecuteSpec == RiskInit /\ [][ExecuteNext]_vars

----------------------------------------------------------------------------
(* The GridStrategy over the paper exchange, driven as the cycle drives it, under a *)
(* risk configuration that accepts the grid's orders (with the default 2% per trade *)
(* and 30% grid allocation every grid order is rejected): evaluate and the placing  *)
(* of its signals, the paper fills and on_order_filled.                             *)

\* for signal in signals: _execute_signal, every signal accepted
RECURSIVE place_signals(_, _, _, _, _, _)
place_signals(w, signals, i, strategy, p, t) ==
    IF i > Len(signals) THEN w
    ELSE place_signals(place_order(w, signals[i], strategy, p, t),
                       signals, i + 1, strategy, p, t)

\* the loop of _check_filled_orders from the i-th filled order on, for the
\* GridStrategy: <<w, what on_order_filled was given and what it returned>>
RECURSIVE rotate_fills(_, _, _, _, _, _)
rotate_fills(w, filled_orders, i, p, t, log) ==
    IF i > Len(filled_orders) THEN <<w, log>>
    ELSE LET order == filled_orders[i]
             Upd(o) == IF o.order_id = order.id THEN [o EXCEPT !.status = order.status] ELSE o
             w0 == [w EXCEPT
                      !.db.orders = [j \in 1..Len(@) |-> Upd(@[j])],
                      !.db.trades = Append(@, [order_id |-> order.id, side |-> order.side,
                                               price |-> order.price,
                                               amount |-> order.amount,
                                               strategy |-> ""])]
             r == grid_on_order_filled(w0.grid, order.id, order.symbol)
             w1 == place_signals([w0 EXCEPT !.grid = r[1]], r[2], 1, "Grid", p, t)
         IN rotate_fills(w1, filled_orders, i + 1, p, t,
                         Append(log, [order |-> order, ret |-> r[2]]))

RotationEvaluate ==
    /\ Len(exchange.orders) < MaxGridOrders
    /\ LET r == grid_evaluate(grid, Pair.symbol, Ticker(Pair.symbol, market_price),
                              get_all_balances(exchange))
           w == place_signals([World EXCEPT !.grid = r[1]], r[2], 1, "Grid",
                              market_price, now)
       IN /\ grid' = w.grid
          /\ exchange' = w.ex
          /\ db' = w.db
          /\ last' = [op |-> "evaluate", ret |-> r[2], reset |-> FALSE,
                      pre_paused |-> FALSE]
    /\ UNCHANGED <<now, risk, hist, pc, market_price, dca, tr, idx, shutdown_event,
                   original, restarts, config, failures>>

RotationCheckFilledOrders ==
    /\ Len(exchange.orders) < MaxGridOrders
    /\ LET f == check_and_fill_paper_orders(exchange, Ticker(Pair.symbol, market_price))
           r == rotate_fills([World EXCEPT !.ex = f[1]], f[2], 1, market_price, now, <<>>)
       IN /\ grid' = r[1].grid
          /\ exchange' = r[1].ex
          /\ db' = r[1].db
          /\ last' = [op |-> "check_filled_orders", ret |-> r[2], reset |-> FALSE,
                      pre_paused |-> FALSE]
    /\ UNCHANGED <<now, risk, hist, pc, market_price, dca, tr, idx, shutdown_event,
                   original, restarts, config, failures>>

\* the prices the venue quotes here: buy orders of the ladder fill one by one; at 30
\* the levels 28.8, 29.1 and 29.4 round to the same price
RotationPrices == {30, 95, 96, 97, 100}

RotationPriceMove ==
    /\ market_price' \in RotationPrices \ {market_price}
    /\ UNCHANGED <<failures, config, original, restarts, now, risk, last, hist, pc,
                   exchange, dca, grid, db,
                   tr, idx, shutdown_event>>

RotationNext ==
    \/ RotationEvaluate
    \/ RotationCheckFilledOrders
    \/ RotationPriceMove

RotationInit == Constructed /\ market_price \in RotationPrices

RotationSpec == RotationInit /\ [][RotationNext]_vars

----------------------------------------------------------------------------
(* The DCAStrategy's pass of the strategy loop (bot.py:256-269), cycle after cycle, *)
(* while the price falls by 3% steps                                               *)

\* one pass of the strategy loop for the DCAStrategy; hist counts the orders submitted
\* since the daily counter was last reset
DcaCycleEvaluate ==
    /\ risk.initial_portfolio_value # 0
    /\ Len(exchange.orders) < MaxDcaOrders
    /\ \E f \in FaultSets :
          \E w \in {evaluate_strategy([Faulty(f) EXCEPT !.tr = <<>>], 2, market_price, now)} :
             /\ Commit(w)
             /\ hist' = [submitted |->
                            (IF w.dca.day_start # dca.day_start THEN 0
                             ELSE Get(hist, "submitted", 0))
                                + Len(w.ex.orders) - Len(exchange.orders)]
             /\ last' = [op |-> "evaluate", ret |-> ~w.exc, reset |-> FALSE,
                         pre_paused |-> risk.is_paused, pre |-> dca]
    /\ UNCHANGED <<now, pc, market_price, idx, shutdown_event, original, restarts,
                   config>>

DcaCyclePriceMove ==
    /\ market_price' \in DcaPrices \ {market_price}
    /\ UNCHANGED <<failures, config, original, restarts, now, risk, last, hist, pc,
                   exchange, dca, grid, db, tr, idx, shutdown_event>>

DcaCycleNext ==
    \/ Tick
    \/ DoInitialize(ExecuteInitialValues)
    \/ DcaCycleEvaluate
    \/ DcaCyclePriceMove

DcaCycleSpec == RiskInit /\ [][DcaCycleNext]_vars

----------------------------------------------------------------------------
(* Claims about the RiskManager *)

Peak == risk.peak_portfolio_value
Current == risk.current_portfolio_value
DailyStart == risk.daily_starting_value

\* C2 (as stated): after any sequence of update_portfolio_value calls the peak equals
\* the maximum value ever passed to update_portfolio_value.
C2_PeakIsMaxPassed == hist.updated => Peak = hist.max_passed

\* C2 (amended): the peak equals the maximum of the starting peak (the value given
\* to initialize, 0 on a fresh RiskManager) and of every value passed to
\* update_portfolio_value since.
C2_PeakIsMaxOfStartAndPassed ==
    Peak = IF hist.updated THEN Max(hist.base, hist.max_passed) ELSE hist.base

\* an update below the initialized value: the peak is larger than every value passed
C2_Witness ==
    /\ last.op = "update" /\ hist.base = 100 /\ hist.updated /\ hist.max_passed = 93 /\ Peak = 100

\* C3: across update_portfolio_value, resume_trading and force_resume the peak never
\* decreases and it is always at least the current value.
C3_PeakMonotone ==
    [][last'.op \in {"update", "resume", "force"}
        => /\ risk'.peak_portfolio_value >= Peak
           /\ risk'.peak_portfolio_value >= risk'.current_portfolio_value]_vars

\* the value fell after an update had raised the peak above the initialized value
C3_Witness ==
    /\ last.op = "update" /\ hist.base = 90 /\ Peak = 100 /\ Current = 95

\* C4: after update_portfolio_value(v) with peak p > 0, a drawdown (p - v)/p at or
\* above max_drawdown_pct (inclusive) means is_paused.
C4_DrawdownPauses ==
    (/\ last.op = "update"
     /\ Peak > 0
     /\ (Peak - Current) * 100 >= MaxDrawdownPct * Peak) => risk.is_paused

\* the inclusive bound, reached with the daily-loss breaker silent
C4_Witness ==
    /\ last.op = "update" /\ Peak = 100 /\ Current = 90 /\ DailyStart = 93
    /\ risk.is_paused /\ risk.pause_reason = DrawdownReason

\* C5 (as stated): an update on an unpaused RiskManager with drawdown strictly below
\* max_drawdown_pct leaves is_paused false.
C5_BelowDrawdownStaysUnpaused ==
    (/\ last.op = "update"
     /\ ~last.pre_paused
     /\ Peak > 0
     /\ (Peak - Current) * 100 < MaxDrawdownPct * Peak) => ~risk.is_paused

\* C5 (amended): ... leaves is_paused false provided the daily-loss breaker does not
\* fire in the same call (daily_starting_value = 0 or the daily loss is below
\* daily_loss_limit_pct).
C5_BelowBothLimitsStaysUnpaused ==
    (/\ last.op = "update"
     /\ ~last.pre_paused
     /\ Peak > 0
     /\ (Peak - Current) * 100 < MaxDrawdownPct * Peak
     /\ \/ DailyStart = 0
        \/ (0 - risk.daily_pnl) * 100 < DailyLossLimitPct * DailyStart) => ~risk.is_paused

\* peak 100, value 91 on a day that started at 95
C5_Witness ==
    /\ last.op = "update" /\ ~last.pre_paused /\ Peak = 100 /\ Current = 91
    /\ DailyStart = 95 /\ ~risk.is_paused

\* C6: after update_portfolio_value, daily_starting_value > 0 and a daily loss at or
\* above daily_loss_limit_pct mean is_paused, with the daily-loss reason even when the
\* drawdown breaker fired in the same update.
C6_DailyLossPauses ==
    (/\ last.op = "update"
     /\ DailyStart > 0
     /\ (0 - risk.daily_pnl) * 100 >= DailyLossLimitPct * DailyStart)
        => risk.is_paused /\ risk.pause_reason = DailyLossReason

\* both breakers fire in one update
C6_Witness ==
    /\ last.op = "update" /\ ~last.pre_paused /\ Peak = 100 /\ Current = 89
    /\ DailyStart = 100 /\ risk.pause_reason = DailyLossReason

\* C7: is_paused goes from true to false only through the daily reset inside
\* update_portfolio_value, a successful resume_trading or force_resume.
C7_PauseSticky ==
    [][(risk.is_paused /\ ~risk'.is_paused)
        => \/ last'.op = "update" /\ last'.reset
           \/ last'.op = "resume" /\ last'.ret
           \/ last'.op = "force"]_vars

\* still paused after an update without reset that brought the value back to the peak
C7_Witness ==
    /\ last.op = "update" /\ ~last.reset /\ last.pre_paused
    /\ risk.is_paused /\ Peak = 100 /\ Current = 100

\* C8: resume_trading on a paused RiskManager unpauses and returns true iff the
\* drawdown is strictly below 0.8 * max_drawdown_pct; otherwise it returns false and
\* leaves is_paused and pause_reason as they were (peak 100, current 92: fails).
C8_ResumeIffStrictlyBelow ==
    [][(last'.op = "resume" /\ risk.is_paused)
        => LET below == (Peak - Current) * 100 * 100 < MaxDrawdownPct * RecoveryPct * Peak
           IN /\ last'.ret <=> below
              /\ below => ~risk'.is_paused /\ risk'.pause_reason = ""
              /\ ~below => /\ risk'.is_paused = risk.is_paused
                           /\ risk'.pause_reason = risk.pause_reason]_vars

\* the two RiskManagers agree on what the claim compares
SameRiskDecision(a, b) ==
    /\ a.is_paused = b.is_paused
    /\ a.pause_reason = b.pause_reason
    /\ a.daily_pnl = b.daily_pnl

\* C11: a RiskManager restored from get_status() gives, on the next
\* update_portfolio_value, the same paused flag, pause reason and daily P&L as the
\* RiskManager the status was taken from.
C11_RestoredRiskDecidesAlike ==
    last.op = "load_state" =>
        \A v \in RestoreValues :
            SameRiskDecision(update_portfolio_value(risk, v, now),
                             update_portfolio_value(original.risk, v, now))

----------------------------------------------------------------------------
(* Claims about validate_signal *)

Notional(signal, ticker) ==
    signal.amount * (IF signal.price # 0 THEN signal.price ELSE ticker.last)

FreeAtLeast(balances, cur, x) == cur \in DOMAIN balances /\ balances[cur].free >= x

\* C9: validate_signal returns (false, "Trading paused: <reason>") whenever is_paused;
\* otherwise it returns ok iff the notional is within current * max_risk_per_trade_pct,
\* a BUY has free quote balance >= notional and a SELL free base balance >= amount.
\* It never changes the RiskState.
C9_ValidateVerdict ==
    last.op = "validate" =>
        IF risk.is_paused
        THEN last.ret = <<FALSE, [kind |-> "Trading paused", why |-> risk.pause_reason]>>
        ELSE last.ret[1] <=>
                /\ Notional(last.signal, last.ticker) * 100
                       <= Current * MaxRiskPerTradePct
                /\ last.signal.signal_type = "buy"
                       => FreeAtLeast(last.balances, "USD", Notional(last.signal, last.ticker))
                /\ last.signal.signal_type = "sell"
                       => FreeAtLeast(last.balances, "BTC", last.signal.amount)

C9_ValidateSignal ==
    /\ []C9_ValidateVerdict
    /\ [][last'.op = "validate" => risk' = risk]_vars

\* a BUY exactly at the position limit and exactly covered by the free balance is ok
C9_Witness ==
    /\ last.op = "validate" /\ ~risk.is_paused /\ Current = 100
    /\ last.signal.signal_type = "buy" /\ Notional(last.signal, last.ticker) = 2
    /\ FreeAtLeast(last.balances, "USD", 2) /\ last.balances["USD"].free = 2
    /\ last.ret[1]

InsufficientQuote(signal, ticker, balances) ==
    [kind |-> "Insufficient balance", currency |-> "USD",
     need |-> Notional(signal, ticker),
     have |-> IF "USD" \in DOMAIN balances THEN balances["USD"].free ELSE 0]

BuyBeyondQuote ==
    /\ last.op = "validate"
    /\ last.signal.signal_type = "buy"
    /\ Notional(last.signal, last.ticker)
           > (IF "USD" \in DOMAIN last.balances THEN last.balances["USD"].free ELSE 0)

\* C10 (as stated): every BUY whose notional exceeds the free quote balance is rejected
\* with the insufficient-balance reason naming the needed notional and the available
\* balance.  (Stated for an initialized RiskManager with a funded portfolio.)
C10_RejectedForBalance ==
    (BuyBeyondQuote /\ Current > 0)
        => last.ret = <<FALSE, InsufficientQuote(last.signal, last.ticker, last.balances)>>

\* C10 (amended): every such BUY is rejected; the reason is the insufficient-balance
\* one, naming both values, exactly when trading is not paused and the notional is
\* within the position-size limit (those two checks come first and give their own
\* reason).
C10_RejectedBalanceAfterPauseAndSize ==
    BuyBeyondQuote
        => /\ ~last.ret[1]
           /\ (last.ret[2] = InsufficientQuote(last.signal, last.ticker, last.balances))
                <=> /\ ~risk.is_paused
                    /\ Notional(last.signal, last.ticker) * 100
                           <= Current * MaxRiskPerTradePct

\* an unpaused BUY within the size limit but beyond the free quote balance
C10_Witness ==
    /\ BuyBeyondQuote /\ ~risk.is_paused
    /\ Notional(last.signal, last.ticker) = 2
    /\ last.ret[2] = [kind |-> "Insufficient balance", currency |-> "USD",
                      need |-> 2, have |-> 1]

----------------------------------------------------------------------------
(* Claims about the cycle *)

\* the cycle in progress (or the last one) has updated the risk manager, which is paused
PausedCycle == Len(tr) >= 2 /\ tr[2] = "update_portfolio_value" /\ risk.is_paused

C1_PausedCycleDoesNotTrade ==
    PausedCycle =>
        /\ pc \notin {"fills", "eval", "save"}
        /\ \A i \in 1..Len(tr) : tr[i] \notin {"check_filled_orders", "evaluate", "order"}
        /\ tr[Len(tr)] # "error"
               => /\ tr = <<"valuation", "update_portfolio_value", "snapshot", "paused">>
                  /\ db.snapshot = <<risk.current_portfolio_value>>

\* C1: in every cycle of _run_cycle in which the RiskManager is paused after
\* update_portfolio_value, the portfolio snapshot is persisted (the cycle not failing)
\* but no fill reconciliation runs, no strategy is evaluated and no order is submitted.
C1_PausedCycleOnlySnapshots ==
    /\ []C1_PausedCycleDoesNotTrade
    /\ [][(pc = "loop" /\ pc' # "loop" /\ PausedCycle')
            => /\ pc' = "wait"
               /\ exchange' = exchange
               /\ db'.orders = db.orders /\ db'.trades = db.trades
               /\ dca' = dca /\ grid' = grid]_vars

\* a cycle skipped for the pause, in a bot that traded in earlier cycles
C1_Witness ==
    /\ PausedCycle /\ pc = "wait" /\ tr[Len(tr)] = "paused"
    /\ Len(exchange.orders) > 0
    /\ db.snapshot = <<risk.current_portfolio_value>>

\* what _save_state would write now
StatusNow == save_state(World).db.state

\* C14: every cycle (the failing ones set aside), paused or not, ends with the status
\* of the risk manager and of every strategy saved to the store, and the shutdown
\* (its save not failing) saves once more.
C14_EveryCycleEndsSaved ==
    /\ (pc = "wait" /\ tr[Len(tr)] # "error")
           => tr[Len(tr)] = "save_state" /\ db.state = StatusNow
    /\ (pc = "done" /\ tr[Len(tr)] # "error")
           => tr = <<"shutdown", "save_state">> /\ db.state = StatusNow

\* C13: after _save_state and a new process's _load_state the GridStrategy has the
\* initialized flag, base price and grid levels it had before, and its next evaluate
\* neither initializes the grid again nor emits the initial buy signals again.
C13_GridSurvivesRestart ==
    (restarts > 0 /\ pc = "start" /\ original.grid.initialized) =>
        /\ grid.initialized = original.grid.initialized
        /\ grid.base_price = original.grid.base_price
        /\ grid.grid_levels = original.grid.grid_levels
        /\ \A p \in Prices :
              grid_evaluate(grid, Pair.symbol, Ticker(Pair.symbol, p),
                            get_all_balances(exchange)) = <<grid, <<>>>>

----------------------------------------------------------------------------
(* Claims about the DCAStrategy *)

\* what the next evaluate of a DCAStrategy decides, for a funded quote balance
DcaDecision(d, p) ==
    LET r == dca_evaluate(d, Pair.symbol, Ticker(Pair.symbol, p),
                          [USD |-> Balance(10000)], now)
    IN [signals |-> r[2], buys_today |-> r[1].buys_today]

\* C12: a DCAStrategy restored from get_status() decides on the next evaluate as the
\* strategy the status was taken from: the same signals, and the daily quota already
\* consumed stays consumed.
C12_RestoredDcaDecidesAlike ==
    last.op = "dca_load_state" =>
        \A p \in DcaPrices : DcaDecision(dca, p) = DcaDecision(original.dca, p)

\* the quota is used up and the day of the counter is not over
QuotaReached(d) ==
    d.buys_today >= MaxBuysPerDay /\ Seconds(now - d.day_start) < SecondsPerDay

\* C19: driven by the cycle, buys_today never exceeds max_buys_per_day; evaluate emits
\* no signal while buys_today >= max_buys_per_day and fewer than 86400 s have passed
\* since day_start; the counter goes down only by the reset to 0, 86400 s or more
\* after day_start.
C19_DailyQuota ==
    /\ [](dca.buys_today <= MaxBuysPerDay)
    /\ []((last.op = "evaluate" /\ QuotaReached(last.pre)) => last.ret = <<>>)
    /\ [][dca'.buys_today < dca.buys_today
            => /\ dca'.buys_today = 0
               /\ Seconds(now - dca.day_start) >= SecondsPerDay]_vars

\* an evaluate that would have bought on a price drop (94 to 91), the quota used up
C19_Witness ==
    /\ last.op = "evaluate" /\ last.funded
    /\ QuotaReached(last.pre) /\ last.pre.buys_today = MaxBuysPerDay
    /\ last.pre.last_buy_price = 94 /\ last.price = 91
    /\ last.ret = <<>> /\ dca = last.pre

\* C20: after any sequence of record_buy calls with positive amounts total_invested
\* is the sum of price * amount, total_amount_bought the sum of the amounts and
\* average_price their quotient; 1 @ 100 then 1 @ 120 gives 110, 220 and 2.
C20_RecordBuyTotals ==
    last.op = "record_buy" =>
        /\ dca.total_invested = hist.invested
        /\ dca.total_amount_bought = hist.bought
        /\ dca.average_price[1] * hist.bought = hist.invested * dca.average_price[2]
        /\ hist.calls = <<<<1, 100>>, <<1, 120>>>>
              => /\ dca.total_invested = 220 /\ dca.total_amount_bought = 2
                 /\ dca.average_price[1] = 110 * dca.average_price[2]

\* the example of the claim
C20_Witness ==
    /\ last.op = "record_buy"
    /\ hist.calls = <<<<1, 100>>, <<1, 120>>>>
    /\ dca.total_invested = 220 /\ dca.total_amount_bought = 2
    /\ dca.average_price = <<220, 2>>

----------------------------------------------------------------------------
(* Claims about the GridStrategy *)

\* evaluate has just initialized the grid, at last.price with last.quote free
JustInitialized ==
    /\ last.op = "evaluate" /\ last.own /\ last.has_quote /\ ~last.pre.initialized

\* x is lower + i * spacing rounded to the pair's price precision, for the price p:
\* lower + i * spacing = p * (950 + 10 * i) / 1000 with the configured 5%, 5%, 10
IsRounded(x, p, i) ==
    LET num == p * ((100 - LowerPricePct) * NumGrids + i * (UpperPricePct + LowerPricePct))
        den == 100 * NumGrids
        off == IF x * den >= num THEN x * den - num ELSE num - x * den
    IN 2 * off < den \/ (2 * off = den /\ x % 2 = 0)

\* the amount of a buy level: amount_per_grid_usd / level price, rounded to the amount
\* precision; amount_per_grid_usd = quote * allocation_pct / (num_grids // 2)
BuyAmountOk(q, x) ==
    \E a \in 1..q :
        LET num == q * AllocationPct
            den == 100 * (NumGrids \div 2) * x
            off == IF a * den >= num THEN a * den - num ELSE num - a * den
        IN a >= Pair.min_order_size /\ (2 * off < den \/ (2 * off = den /\ a % 2 = 0))

SideOf(x, p) == IF x < p THEN "buy" ELSE "sell"

\* C15 as stated: num_grids levels, the i-th at lower + i * spacing (up to the rounding
\* to the price precision), buy iff strictly below the current price
C15_NumGridsLevels ==
    JustInitialized =>
        /\ Len(grid.grid_levels) = NumGrids
        /\ \A i \in 0..(NumGrids - 1) :
              /\ IsRounded(grid.grid_levels[i + 1].price, last.price, i)
              /\ grid.grid_levels[i + 1].side
                     = SideOf(grid.grid_levels[i + 1].price, last.price)

\* the i of 0..num_grids-1 that get a level: every sell level, and the buy levels
\* whose amount reaches the minimum order size
KeptLevels(p, q) ==
    {i \in 0..(NumGrids - 1) :
        \E x \in 0..(2 * p) :
            IsRounded(x, p, i) /\ (x < p => BuyAmountOk(q, x))}

\* C15: initialize_grid creates, in the order of i in 0..num_grids-1, one level at
\* lower + i * spacing rounded to the price precision, except that a buy level whose
\* rounded amount is below the minimum order size is left out; a level is a buy level
\* iff its price is strictly below the current price.  For price 100 (5%, 5%, 10
\* grids) and a quote balance that funds the buy amounts: 5 buy levels 95..99 and 5
\* sell levels 100..104, spacing 1.
C15_LevelsRoundedAndFunded ==
    JustInitialized =>
        LET levels == grid.grid_levels
            kept == KeptLevels(last.price, last.quote)
            Nth(k) == CHOOSE i \in kept : Cardinality({j \in kept : j < i}) = k - 1
        IN /\ Len(levels) = Cardinality(kept)
           /\ \A k \in 1..Len(levels) :
                 /\ IsRounded(levels[k].price, last.price, Nth(k))
                 /\ levels[k].side = SideOf(levels[k].price, last.price)
                 /\ levels[k].order_id = 0 /\ ~levels[k].filled
           /\ grid.base_price = last.price
           /\ (last.price = 100 /\ last.quote = 10000)
                 => /\ Len(levels) = 10
                    /\ \A k \in 1..10 : levels[k].price = 94 + k
                    /\ \A k \in 1..5 : levels[k].side = "buy"
                    /\ \A k \in 6..10 : levels[k].side = "sell"
                    /\ Len(last.ret) = 5

\* the grid of the example
C15_Witness ==
    /\ JustInitialized
    /\ last.price = 100 /\ last.quote = 10000
    /\ Len(grid.grid_levels) = 10 /\ grid.grid_levels[5].side = "buy"
    /\ grid.grid_levels[6] = [price |-> 100, side |-> "sell", order_id |-> 0,
                              filled |-> FALSE]

\* C16: once the grid is initialized, evaluate, on_order_filled and set_order_id leave
\* the number of levels and each level's price and side as they are (only order_id
\* and filled change).
C16_LevelsFixed ==
    [][grid.initialized
         => /\ Len(grid'.grid_levels) = Len(grid.grid_levels)
            /\ \A i \in 1..Len(grid.grid_levels) :
                  /\ grid'.grid_levels[i].price = grid.grid_levels[i].price
                  /\ grid'.grid_levels[i].side = grid.grid_levels[i].side]_vars

\* an initialized grid on which set_order_id and on_order_filled have acted: one level
\* was filled, another one owns an order; the last call, a set_order_id, changed nothing
C16_Witness ==
    /\ grid.initialized /\ Len(grid.grid_levels) = 10
    /\ \E i, j \in 1..10 :
          /\ grid.grid_levels[i].filled /\ grid.grid_levels[i].order_id = 0
          /\ grid.grid_levels[j].order_id = 2 /\ ~grid.grid_levels[j].filled
    /\ last.op = "set_order_id" /\ last.pre = grid

\* C17: initialized never returns to false; the first evaluate for the strategy's own
\* symbol with a quote balance present initializes the grid; every later evaluate
\* returns no signals and leaves the grid as it is, whatever the price.
C17_InitializedOnce ==
    /\ [](last.op = "evaluate" =>
            /\ (~last.pre.initialized /\ last.own /\ last.has_quote)
                   => grid.initialized /\ grid.base_price = last.price
            /\ last.pre.initialized => last.ret = <<>> /\ grid = last.pre)
    /\ [][grid.initialized => grid'.initialized]_vars

\* an evaluate far from the base price (90% below it) on a grid with an order and a
\* filled level
C17_Witness ==
    /\ last.op = "evaluate" /\ last.own /\ last.has_quote /\ last.quote = 10000
    /\ last.pre.initialized /\ last.pre.base_price = 100 /\ last.price = 10
    /\ last.ret = <<>> /\ grid.initialized
    /\ \E i \in 1..Len(grid.grid_levels) : grid.grid_levels[i].filled

\* C18: whenever a limit order placed for a signal of the GridStrategy is reported
\* filled, on_order_filled finds the level that owns the order and emits the signal
\* of the opposite side: a SELL above a filled buy, a BUY below a filled sell.
C18_RotationKeepsGoing ==
    last.op = "check_filled_orders" =>
        \A k \in 1..Len(last.ret) :
            LET order == last.ret[k].order
                signals == last.ret[k].ret
            IN /\ Len(signals) = 1
               /\ order.side = "buy"
                     => signals[1].signal_type = "sell" /\ signals[1].price > order.price
               /\ order.side = "sell"
                     => signals[1].signal_type = "buy" /\ signals[1].price < order.price

----------------------------------------------------------------------------
(* Claims about the daily reset *)

\* C30: a call update_portfolio_value(v) made 86400 s or more after day_start_timestamp
\* sets daily_starting_value to v and day_start_timestamp to the time of the call, leaves
\* daily_pnl at 0, and lifts an existing pause before the breakers are checked again iff
\* its reason mentions "daily" (a pause for the drawdown stays; a daily pause is gone
\* unless the drawdown breaker fires in the same call); a call made earlier leaves
\* daily_starting_value and day_start_timestamp as they were.
C30_DailyReset ==
    [][(last'.op = "update" /\ now' = now) =>
          IF Seconds(now - risk.day_start_timestamp) >= SecondsPerDay
          THEN /\ risk'.daily_starting_value = risk'.current_portfolio_value
               /\ risk'.day_start_timestamp = now
               /\ risk'.daily_pnl = 0
               /\ (risk.is_paused /\ risk.pause_reason = DailyLossReason)
                      => (risk'.is_paused <=> /\ risk'.peak_portfolio_value # 0
                                              /\ DrawdownBreached(risk'))
               /\ (risk.is_paused /\ risk.pause_reason # DailyLossReason)
                      => risk'.is_paused
          ELSE /\ risk'.daily_starting_value = risk.daily_starting_value
               /\ risk'.day_start_timestamp = risk.day_start_timestamp]_vars

\* an update exactly 86400 s after the day started lifted a daily-loss pause
C30_Witness ==
    /\ last.op = "update" /\ last.reset /\ last.pre_paused /\ ~risk.is_paused
    /\ risk.day_start_timestamp = now /\ now = 4
    /\ DailyStart = Current /\ Current = 94 /\ Peak = 100

----------------------------------------------------------------------------
(* Claims about _execute_signal *)

\* C26: when validate_signal rejects a signal inside _execute_signal, no order is
\* submitted to the exchange, no order or trade is persisted, the RiskState, the
\* DCAState and the grid levels are unchanged, and no exception is raised.
C26_RejectionChangesNothing ==
    [][(last'.op = "execute_signal" /\ tr' = <<"rejected">>) =>
          /\ exchange' = exchange
          /\ db' = db
          /\ risk' = risk
          /\ dca' = dca
          /\ grid' = grid
          /\ last'.ret]_vars

\* a Grid signal was rejected for its size, with orders placed before it and the grid
\* laid out
C26_Witness ==
    /\ last.op = "execute_signal"
    /\ tr = <<"rejected">>
    /\ last.strategy = "Grid"
    /\ last.signal.amount = 3
    /\ ~risk.is_paused
    /\ grid.initialized
    /\ Len(exchange.orders) > 0
    /\ dca.buys_today > 0

\* the call of _execute_signal in this step put an order on the exchange that came
\* back closed
SubmittedAndFilled ==
    /\ Len(exchange'.orders) = Len(exchange.orders) + 1
    /\ exchange'.orders[Len(exchange'.orders)].status = "closed"

\* C27: record_buy is called exactly once for each order that was submitted for a
\* DCAStrategy BUY signal and came back closed, and never for a rejected signal, a
\* failed submission, an order that is not filled, a SELL signal or a GridStrategy
\* order.
C27_RecordBuyOncePerFilledDcaBuy ==
    [][last'.op = "execute_signal" =>
          IF last'.strategy = "DCA" /\ last'.signal.signal_type = "buy" /\ SubmittedAndFilled
          THEN dca' = record_buy(dca, market_price, last'.signal.amount, now)
          ELSE dca' = dca]_vars

----------------------------------------------------------------------------
(* Claims about failures, the order of a cycle's steps and the shutdown *)

Count(seq, x) == Cardinality({i \in 1..Len(seq) : seq[i] = x})
Outcomes == {"order", "rejected", "failed"}
\* what the step has appended to the trace of the cycle
Appended == SubSeq(tr', Len(tr) + 1, Len(tr'))
\* the signals strategy.evaluate of the strategy whose turn it is returns
EvaluatedSignals ==
    LET ticker == Ticker(Pair.symbol, market_price)
        balances == get_all_balances(exchange)
    IN IF Strategies[idx] = "Grid"
       THEN grid_evaluate(grid, Pair.symbol, ticker, balances)[2]
       ELSE dca_evaluate(dca, Pair.symbol, ticker, balances, now)[2]

\* C21: an exception raised while submitting an order in _execute_signal is caught
\* there: nothing propagates to the strategy loop, the remaining signals of the
\* strategy are executed and the cycle goes on to the next strategy (or to the save).
C21_SubmissionFailureCaught ==
    [][(pc = "eval" /\ Count(tr', "failed") > Count(tr, "failed")) =>
          /\ Len(Appended) = 1 + Len(EvaluatedSignals)
          /\ Appended[1] = "evaluate"
          /\ \A i \in 2..Len(Appended) : Appended[i] \in Outcomes
          /\ pc' = IF idx < Len(Strategies) THEN "eval" ELSE "save"
          /\ failures' = failures + 1]_vars

\* the submission of the first of the grid's five buy orders failed, the four after
\* it were placed, and the next strategy is about to be evaluated
C21_Witness ==
    /\ pc = "eval"
    /\ idx = 2
    /\ Len(tr) = 10
    /\ tr[5] = "evaluate"
    /\ tr[6] = "failed"
    /\ \A i \in 7..10 : tr[i] = "order"

\* C22: when a strategy's evaluate (or the execution of one of its signals) raises
\* during a cycle, every strategy later in the list is still evaluated in that cycle
\* and the cycle still saves the state at its end (the save itself not failing).
C22_StrategyFailureIsolated ==
    (\E i \in 1..Len(tr) : tr[i] = "strategy_error") =>
        /\ pc # "backoff"
        /\ pc # "eval" => Count(tr, "evaluate") = Len(Strategies)
        /\ pc \notin {"eval", "save"} => tr[Len(tr)] \in {"save_state", "error"}
        /\ tr[Len(tr)] = "save_state" => db.state = StatusNow

\* the first strategy failed, the second was evaluated and the cycle saved
C22_Witness ==
    /\ pc = "wait"
    /\ tr[Len(tr)] = "save_state"
    /\ \E i, j \in 1..Len(tr) : i < j /\ tr[i] = "strategy_error" /\ tr[j] = "evaluate"
    /\ db.state = StatusNow

\* a step of _run_cycle ends in the except clause of the cycle
CycleFails ==
    /\ pc \in {"loop", "fills", "eval", "save"}
    /\ tr' # tr
    /\ tr' # <<>>
    /\ tr'[Len(tr')] = "error"

\* C23: no failure of an exchange or persistence call inside a cycle terminates the
\* main loop: the failing cycle returns to the wait of run, run ends only when the
\* shutdown was requested, and after a failure the next cycle is attempted unless the
\* shutdown is requested.
C23_LoopSurvivesFailures ==
    /\ [][CycleFails => pc' = "wait"]_vars
    /\ [](pc \in {"shutdown", "done", "backoff"} => shutdown_event /\ pc # "backoff")
    /\ (pc = "wait" /\ failures > 0) ~> (pc = "loop" \/ shutdown_event)

\* a cycle was started after a cycle that failed
C23_Witness ==
    /\ failures > 0
    /\ pc = "fills"
    /\ ~shutdown_event
    /\ db.snapshot # <<>>

\* C24: when a cycle fails with an unexpected error, the loop waits the fixed back-off
\* delay (not the normal check interval) before it starts the next cycle.
C24_FailedCycleBacksOff ==
    [][CycleFails => pc' = "backoff"]_vars

\* C28: within each cycle the steps happen in this order: valuation,
\* update_portfolio_value, snapshot, pause check, fill reconciliation, strategy
\* evaluation with signal execution, save; no strategy is evaluated and no order
\* submitted before the risk update of the same cycle.
C28_CycleOrder ==
    (tr # <<>> /\ tr[1] # "shutdown") =>
        /\ \A i \in 1..Len(tr) :
              /\ tr[i] = "valuation" => i = 1
              /\ tr[i] = "update_portfolio_value" => i = 2 /\ tr[1] = "valuation"
              /\ tr[i] = "snapshot" => i = 3 /\ tr[2] = "update_portfolio_value"
              /\ tr[i] = "paused" => i = 4 /\ tr[3] = "snapshot" /\ Len(tr) = 4
              /\ tr[i] = "check_filled_orders" => i = 4 /\ tr[3] = "snapshot"
              /\ tr[i] \in {"trade", "on_order_filled", "evaluate"} \cup Outcomes
                    => i > 4 /\ tr[4] = "check_filled_orders"
              /\ tr[i] \in {"trade", "on_order_filled"}
                    => \A j \in 1..i : tr[j] # "evaluate"
              /\ tr[i] = "save_state"
                    => i = Len(tr) /\ Count(tr, "evaluate") = Len(Strategies)
        /\ (Len(tr) >= 3 /\ tr[3] = "snapshot") => db.snapshot = <<risk.current_portfolio_value>>
        /\ pc = "fills" => tr = <<"valuation", "update_portfolio_value", "snapshot">>
        /\ pc \in {"eval", "save"} => Len(tr) >= 4 /\ tr[4] = "check_filled_orders"

\* a whole cycle: fills reconciled and answered with orders, both strategies
\* evaluated, the state saved
C28_Witness ==
    /\ pc = "wait"
    /\ tr[Len(tr)] = "save_state"
    /\ Count(tr, "trade") > 0
    /\ Count(tr, "order") > 0
    /\ Count(tr, "evaluate") = Len(Strategies)

\* a cycle starts
CycleStarts == pc = "loop" /\ pc' # "loop"

\* The claim as it was made: once stop() is called no new cycle starts.
C25_NoCycleAfterStop ==
    [][shutdown_event => ~CycleStarts]_vars

\* C25: cooperative shutdown: once stop() is called, a cycle in progress runs to its
\* end, the cycle run is about to start (stop() having come before the loop's first
\* wait, or between a wait's timeout and the cycle) is still run, the wait that follows
\* returns at once and no cycle starts after it, _save_state is called one last time,
\* and run() ends.
C25_CooperativeShutdown ==
    /\ [][(shutdown_event /\ pc \in {"fills", "eval", "save"})
             => pc' \in {"fills", "eval", "save", "wait"}]_vars
    /\ [][(shutdown_event /\ pc = "wait") => pc' \in {"wait", "shutdown"}]_vars
    /\ [][pc = "shutdown" =>
             /\ pc' \in {"shutdown", "done"}
             /\ pc' = "done" =>
                   \/ tr' = <<"shutdown", "error">>
                   \/ tr' = <<"shutdown", "save_state">> /\ db'.state = StatusNow']_vars
    /\ [](pc = "done" => shutdown_event)
    /\ shutdown_event ~> pc = "done"

\* stop() came while a cycle that placed an order was in progress; the cycle was
\* completed and saved, and the shutdown saved once more
C25_Witness ==
    /\ pc = "done"
    /\ shutdown_event
    /\ tr = <<"shutdown", "save_state">>
    /\ Len(exchange.orders) > 0
    /\ db.state = StatusNow

\* the fills check_and_fill_paper_orders returns to the cycle that is at its
\* reconciliation
FillsReturned ==
    check_and_fill_paper_orders(exchange, Ticker(Pair.symbol, market_price))[2]

\* C29: in paper mode every fill returned by check_and_fill_paper_orders in a cycle is
\* handled before any strategy.evaluate of that cycle: its trade is recorded, then
\* on_order_filled of every strategy is invoked with the order, and the signal
\* returned is executed through _execute_signal.
C29_FillsReconciledFirst ==
    /\ [](\A i \in 1..Len(tr) :
             tr[i] \in {"trade", "on_order_filled"} => \A j \in 1..i : tr[j] # "evaluate")
    /\ [][(pc = "fills" /\ pc' = "eval") =>
             LET fills == FillsReturned
                 new == SubSeq(tr', Len(tr) + 2, Len(tr'))
                 bound(order) == \E k \in 1..Len(grid.grid_levels) :
                                    grid.grid_levels[k].order_id = order.id
             IN /\ tr'[Len(tr) + 1] = "check_filled_orders"
                /\ Count(new, "trade") = Len(fills)
                /\ Count(new, "on_order_filled") = Len(fills) * Len(Strategies)
                /\ db'.trades = db.trades \o
                                   [k \in 1..Len(fills) |->
                                       [order_id |-> fills[k].id, side |-> fills[k].side,
                                        price |-> fills[k].price, amount |-> fills[k].amount,
                                        strategy |-> ""]]
                /\ \A k \in 1..Len(fills) :
                      \E n \in 1..Len(exchange'.orders) :
                         /\ exchange'.orders[n].id = fills[k].id
                         /\ exchange'.orders[n].status = "closed"
                /\ IF fills = <<>> THEN new = <<>> ELSE new[1] = "trade"
                /\ \A i \in 1..Len(new) :
                      /\ new[i] = "trade" => i < Len(new) /\ new[i + 1] = "on_order_filled"
                      /\ new[i] \in Outcomes => i > 1 /\ new[i - 1] = "on_order_filled"
                /\ (fills # <<>> /\ bound(fills[1])) => new[3] \in Outcomes]_vars

\* a cycle has reconciled several fills, placed an order in answer, and is about to
\* evaluate its first strategy
C29_Witness ==
    /\ pc = "eval"
    /\ idx = 1
    /\ Count(tr, "trade") >= 2
    /\ Count(tr, "order") >= 1
    /\ Count(tr, "on_order_filled") = 2 * Count(tr, "trade")
    /\ Len(db.trades) >= 2

----------------------------------------------------------------------------
(* Claims about on_order_filled and set_order_id *)

\* x is num / den rounded to the nearest unit of the price precision
NearestTo(x, num, den) ==
    LET off == IF x * den >= num THEN x * den - num ELSE num - x * den
    IN 2 * off <= den

\* the levels of the grid before the last call that own the order id of the call
Owners == {i \in 1..Len(last.pre.grid_levels) :
              last.pre.grid_levels[i].order_id = last.order_id}

\* C31: on_order_filled(orderId) handles only the first level, in list order, whose
\* order_id is orderId: that level becomes filled and loses its order id, every other
\* level stays as it is, and at most one limit signal is returned, a SELL at
\* price * (1 + upper_pct / (num_grids / 2)) for a buy level and a BUY at
\* price * (1 - lower_pct / (num_grids / 2)) for a sell level (in units of the price
\* precision); when no level owns orderId, nothing changes and no signal is returned.
C31_FirstOwnerOnly ==
    last.op = "on_order_filled" =>
        IF Owners = {} THEN grid = last.pre /\ last.ret = <<>>
        ELSE LET i == CHOOSE k \in Owners : \A j \in Owners : k <= j
                 level == last.pre.grid_levels[i]
             IN /\ grid = [last.pre EXCEPT !.grid_levels[i].filled = TRUE,
                                           !.grid_levels[i].order_id = 0]
                /\ Len(last.ret) <= 1
                /\ \A k \in 1..Len(last.ret) :
                      LET signal == last.ret[k]
                      IN /\ signal.order_type = "limit"
                         /\ signal.symbol = Pair.symbol
                         /\ level.side = "buy" =>
                               /\ signal.signal_type = "sell"
                               /\ NearestTo(signal.price,
                                            level.price * (100 * NumGrids + 2 * UpperPricePct),
                                            100 * NumGrids)
                         /\ level.side = "sell" =>
                               /\ signal.signal_type = "buy"
                               /\ NearestTo(signal.price,
                                            level.price * (100 * NumGrids - 2 * LowerPricePct),
                                            100 * NumGrids)

\* two levels own the order id of the call; the first, a buy level at 95, was handled
\* and answered with a SELL at 96, the second still owns the id
C31_Witness ==
    /\ last.op = "on_order_filled" /\ Cardinality(Owners) = 2
    /\ \E i, j \in Owners :
          /\ i < j
          /\ last.pre.grid_levels[i].side = "buy" /\ last.pre.grid_levels[i].price = 95
          /\ grid.grid_levels[i].filled /\ grid.grid_levels[i].order_id = 0
          /\ grid.grid_levels[j].order_id = last.order_id /\ ~grid.grid_levels[j].filled
    /\ Len(last.ret) = 1 /\ last.ret[1].signal_type = "sell" /\ last.ret[1].price = 96

\* the levels of the grid before the last call whose price is within the tolerance of
\* the price of the call
Matches == {i \in 1..Len(last.pre.grid_levels) : last.pre.grid_levels[i].price = last.price}

\* set_order_id(price, id) binds the id to the first level within the tolerance and
\* to no other level; without such a level nothing changes
SetOrderIdFirstMatch ==
    last.op = "set_order_id" =>
        IF Matches = {} THEN grid = last.pre
        ELSE LET i == CHOOSE k \in Matches : \A j \in Matches : k <= j
             IN grid = [last.pre EXCEPT !.grid_levels[i].order_id = last.order_id]

\* C32: set_order_id(price, id) sets order_id on exactly one level, the first within
\* the tolerance, and for an initial buy signal this is the level the signal was
\* generated for: once the orders of the initial signals are placed, the k-th buy
\* level holds the id of the order of the k-th signal, and no other level holds an id.
C32_InitialOrderOnItsLevel ==
    (last.op = "evaluate" /\ last.ret # <<>>) =>
        /\ Len(exchange.orders) = Len(last.ret)
        /\ \A k \in 1..Len(grid.grid_levels) :
              grid.grid_levels[k].order_id
                  = IF k <= Len(last.ret) THEN exchange.orders[k].id ELSE 0

----------------------------------------------------------------------------
(* Claims about DCAStrategy.evaluate *)

\* the daily quota is available at the time of the last evaluate, the counter being
\* reset first when a day has passed since day_start
QuotaAvailable ==
    \/ Seconds(last.t - last.pre.day_start) >= SecondsPerDay
    \/ last.pre.buys_today < MaxBuysPerDay

\* no prior buy, or buy_interval_hours have passed since the last buy
ScheduledTrigger ==
    \/ last.pre.last_buy_time = 0
    \/ Seconds(last.t - last.pre.last_buy_time) >= BuyIntervalHours * 3600

\* a prior buy exists and the price fell by price_drop_trigger_pct or more from it
DipTrigger ==
    /\ last.pre.last_buy_price # 0
    /\ (last.pre.last_buy_price - last.price) * 100
           >= PriceDropTriggerPct * last.pre.last_buy_price

\* free * buy_amount_pct / price rounded to the amount precision
RoundedBuyAmount == RoundHalfEven(last.free * BuyAmountPct, 100 * last.price)

\* C33: evaluate for the strategy's own symbol, with a positive free quote balance and
\* the daily quota available, returns exactly one market BUY without a price iff the
\* scheduled trigger or the dip trigger holds and the rounded amount reaches the
\* minimum order size; the signal carries the scheduled reason when both triggers
\* hold; in every other case evaluate returns nothing.
C33_DcaEvaluate ==
    last.op = "evaluate" =>
        IF /\ last.funded /\ QuotaAvailable
           /\ ScheduledTrigger \/ DipTrigger
           /\ RoundedBuyAmount >= Pair.min_order_size
        THEN /\ Len(last.ret) = 1
             /\ last.ret[1].signal_type = "buy"
             /\ last.ret[1].order_type = "market"
             /\ last.ret[1].price = 0
             /\ last.ret[1].symbol = Pair.symbol
             /\ last.ret[1].amount = RoundedBuyAmount
             /\ last.ret[1].reason = IF ScheduledTrigger THEN "Scheduled DCA buy"
                                     ELSE "Price drop DCA buy"
        ELSE last.ret = <<>>

\* a day after a buy at 100 the price is 97: both triggers hold, the signal is the
\* scheduled one
C33_Witness ==
    /\ last.op = "evaluate" /\ last.funded /\ QuotaAvailable
    /\ last.pre.last_buy_price = 100 /\ last.price = 97
    /\ ScheduledTrigger /\ DipTrigger
    /\ Len(last.ret) = 1 /\ last.ret[1].reason = "Scheduled DCA buy"

----------------------------------------------------------------------------
(* Claims about the pause of the drawdown breaker *)

\* C34: once the drawdown breaker has paused trading, is_paused stays true until
\* resume_trading succeeds or force_resume is called; the daily reset of a later
\* update_portfolio_value does not lift that pause.
C34_DrawdownPauseStays ==
    [][(hist.fired /\ ~(last'.op = "force" \/ (last'.op = "resume" /\ last'.ret)))
          => risk'.is_paused]_vars

----------------------------------------------------------------------------
(* Claims about what _execute_signal returns *)

\* the call of _execute_signal in this step created an order on the exchange
OrderCreated ==
    /\ last'.op = "execute_signal"
    /\ Len(exchange'.orders) = Len(exchange.orders) + 1

\* C35: _execute_signal returns None only if no order was created on the exchange for
\* the signal: whenever the exchange accepted the order, the order is returned to the
\* caller (the call ends with the order logged as executed, not as failed) and, for a
\* limit signal of the GridStrategy, set_order_id has been called with the order's id.
C35_CreatedOrderIsReturned ==
    [][OrderCreated =>
          /\ last'.ret
          /\ tr' = <<"order">>
          /\ (last'.strategy = "Grid" /\ last'.signal.order_type = "limit")
                => grid' = set_order_id(grid, last'.signal.price,
                                        exchange'.orders[Len(exchange'.orders)].id)]_vars

----------------------------------------------------------------------------
(* Claims about the orders the grid levels own *)

\* on_order_filled(id) was called in this step and found the level that owned id
ClearedByFill(id) ==
    /\ last'.op = "check_filled_orders"
    /\ \E k \in 1..Len(last'.ret) :
          last'.ret[k].order.id = id /\ last'.ret[k].ret # <<>>

\* C36: set_order_id never replaces the order id of a level whose order is still
\* open: a level's non-null order_id changes only when on_order_filled clears it, and
\* so every open order of the grid is owned by a level.
C36_OpenOrderKeepsLevel ==
    /\ [][\A i \in 1..Len(grid.grid_levels) :
            (/\ grid.grid_levels[i].order_id # 0
             /\ grid'.grid_levels[i].order_id # grid.grid_levels[i].order_id)
                => ClearedByFill(grid.grid_levels[i].order_id)]_vars
    /\ [](\A k \in 1..Len(exchange.orders) :
            exchange.orders[k].status = "open"
                => \E i \in 1..Len(grid.grid_levels) :
                      grid.grid_levels[i].order_id = exchange.orders[k].id)

----------------------------------------------------------------------------
(* Claims about what the cycles eventually do *)

\* every buy level of the grid has a limit buy order at its price on the exchange
BuyLevelsHaveOrders ==
    \A i \in 1..Len(grid.grid_levels) :
        grid.grid_levels[i].side = "buy"
            => \E k \in 1..Len(exchange.orders) :
                  /\ exchange.orders[k].type = "limit"
                  /\ exchange.orders[k].side = "buy"
                  /\ exchange.orders[k].price = grid.grid_levels[i].price

\* C37: every buy level created by initialize_grid eventually gets an order on the
\* exchange (a signal that was rejected or whose submission failed is emitted again
\* in a later cycle), as long as the bot is not asked to shut down.
C37_BuyLevelsGetOrders ==
    grid.initialized ~> (BuyLevelsHaveOrders \/ shutdown_event)

\* C38: between two consecutive resets of the DCAStrategy's daily counter the bot
\* submits at most max_buys_per_day BUY orders for the strategy, whatever status the
\* exchange returns for them.
C38_DailyQuotaOfSubmissions ==
    Get(hist, "submitted", 0) <= MaxBuysPerDay

\* the k-th order of the paper exchange is a limit order that the exchange has filled
FilledLimitOrder(k) ==
    /\ k <= Len(exchange.orders)
    /\ exchange.orders[k].type = "limit"
    /\ exchange.orders[k].status = "closed"

\* the bot has reconciled the fill of the k-th order: the loop body of
\* _check_filled_orders has saved its trade, the step that comes before on_order_filled
\* and the execution of its signals
Reconciled(k) ==
    /\ k <= Len(exchange.orders)
    /\ \E j \in 1..Len(db.trades) : db.trades[j].order_id = exchange.orders[k].id

\* C39: every limit order the paper exchange marks filled is eventually reconciled by
\* the bot (its trade saved, on_order_filled called, the opposite signal emitted), even
\* when an error interrupts the cycle that detected the fill, as long as the bot keeps
\* trading (no shutdown request, no pause).
C39_FillsEventuallyReconciled ==
    \A k \in 1..MaxGridOrders :
        FilledLimitOrder(k) ~> (Reconciled(k) \/ shutdown_event \/ risk.is_paused)

====
